---- MODULE Spec2Model ----
(***************************************************************************)
(* Credential and session token lifecycle of firestore-db-and-auth:        *)
(* src/src/jwt.rs (claim construction, expiry policy, verification) and    *)
(* src/src/sessions.rs (impersonated user sessions, blocking and async).   *)
(*                                                                         *)
(* Time is counted in seconds.  A string is a record: the empty string,    *)
(* an opaque string (a refresh token, or text that is no JWT), or a        *)
(* compact JWT given by its three parts (header, payload, signature).      *)
(* An Option<T> is the empty set (None) or a singleton (Some(v)).          *)
(***************************************************************************)
EXTENDS Integers, Sequences, FiniteSets, TLC

VARIABLES variant, credentials, now, st, sess, last

vars == <<variant, credentials, now, st, sess, last>>

(***************************************************************************)
(* Bounds of the model.                                                    *)
(***************************************************************************)
\* The clock runs from 0 to MaxMinutes minutes.
MaxMinutes == 3
\* Lifetime, in minutes, of the access tokens the identity service issues.
TokenLifetimeMinutes == 1

\* chrono::Duration::num_minutes: whole minutes of 60 seconds.
SecondsPerMinute == 60

(***************************************************************************)
(* Option, Result and strings.                                             *)
(***************************************************************************)
None == {}
Some(v) == {v}
IsSome(o) == o # {}
Unwrap(o) == CHOOSE v \in o : TRUE

Ok(v) == [ok |-> TRUE, val |-> v]
Err(e) == [ok |-> FALSE, err |-> e]

EmptyString == [kind |-> "empty"]
Opaque(n) == [kind |-> "opaque", id |-> n]

\* jwt.rs:19-20
JWT_AUDIENCE_IDENTITY == "identitytoolkit"

Users == {"alice", "bob"}
RefreshTokens == {Opaque("R1"), Opaque("R2")}

(***************************************************************************)
(* jwt.rs                                                                  *)
(***************************************************************************)
\* biscuit's SingleOrMultiple audience.
Single(v) == [multiple |-> FALSE, values |-> <<v>>]
Multiple(vs) == [multiple |-> TRUE, values |-> vs]

\* The scope fold of create_jwt: acc + x + " " for every scope, in order.
\* A scope string is the sequence of its pieces.
RECURSIVE ScopeFold(_, _)
ScopeFold(acc, scope) ==
    IF scope = <<>> THEN acc
    ELSE ScopeFold(acc \o <<Head(scope), " ">>, Tail(scope))

\* Mutant of create_jwt: the expiry is the time of building, whatever the
\* duration.
create_jwt_ExpiresAtOnce(creds, scope, duration, client_id, user_id, audience, t) ==
    Ok([header |-> [alg |-> "RS256", kid |-> Some(creds.private_key_id)],
        payload |-> [iss |-> Some(creds.client_email),
                     aud |-> Some(Single(audience)),
                     sub |-> Some(creds.client_email),
                     exp |-> Some(t),
                     iat |-> Some(t),
                     nbf |-> None,
                     jti |-> None,
                     scope |-> IF IsSome(scope)
                               THEN Some(ScopeFold(<<>>, Unwrap(scope)))
                               ELSE None,
                     client_id |-> client_id,
                     uid |-> user_id]])

\* create_jwt: the decoded (unsigned) token, header and claim set.
create_jwt(creds, scope, duration, client_id, user_id, audience, t) ==
    Ok([header |-> [alg |-> "RS256", kid |-> Some(creds.private_key_id)],
        payload |-> [iss |-> Some(creds.client_email),
                     aud |-> Some(Single(audience)),
                     sub |-> Some(creds.client_email),
                     exp |-> Some(t + duration),
                     iat |-> Some(t),
                     nbf |-> None,
                     jti |-> None,
                     scope |-> IF IsSome(scope)
                               THEN Some(ScopeFold(<<>>, Unwrap(scope)))
                               ELSE None,
                     client_id |-> client_id,
                     uid |-> user_id]])

\* Mutant of the encoding: the user id claim is not serialised.
Encode_DropsUid(jwt, secret) ==
    [kind |-> "jwt", header |-> jwt.header,
     payload |-> [jwt.payload EXCEPT !.uid = None], sig |-> secret]

\* jwt.encode(secret).encoded().encode(): the compact string, signed with the
\* private key `secret`.  A signature is named by the key pair that made it.
Encode(jwt, secret) ==
    [kind |-> "jwt", header |-> jwt.header, payload |-> jwt.payload, sig |-> secret]

\* Duration::num_minutes truncates toward zero.
NumMinutes(seconds) ==
    IF seconds >= 0 THEN seconds \div SecondsPerMinute
    ELSE -((-seconds) \div SecondsPerMinute)

\* Mutant of is_expired: a token is expired from the minute of its expiry on.
is_expired_AtExpiry(access_token, tolerance_in_minutes, t) ==
    IF access_token.kind # "jwt" THEN Err("not a jwt")
    ELSE IF IsSome(access_token.payload.exp)
         THEN Ok(NumMinutes(t - Unwrap(access_token.payload.exp)) - tolerance_in_minutes >= 0)
         ELSE Ok(TRUE)

\* Mutant of is_expired: the tolerance is added to the age, not subtracted.
is_expired_AddsTolerance(access_token, tolerance_in_minutes, t) ==
    IF access_token.kind # "jwt" THEN Err("not a jwt")
    ELSE IF IsSome(access_token.payload.exp)
         THEN Ok(NumMinutes(t - Unwrap(access_token.payload.exp)) + tolerance_in_minutes > 0)
         ELSE Ok(TRUE)

\* is_expired: decodes the payload without checking the signature.
is_expired(access_token, tolerance_in_minutes, t) ==
    IF access_token.kind # "jwt" THEN Err("not a jwt")
    ELSE IF IsSome(access_token.payload.exp)
         THEN Ok(NumMinutes(t - Unwrap(access_token.payload.exp)) - tolerance_in_minutes > 0)
         ELSE Ok(TRUE)

\* Mutant of the presence options: the issuer is Optional.
RequiredClaimsPresent_IssuerOptional(p) ==
    /\ IsSome(p.iat)
    /\ IsSome(p.exp)
    /\ IsSome(p.aud)
    /\ IsSome(p.sub)

\* ClaimPresenceOptions of verify_access_token: iat, exp, iss, aud, sub are
\* Required; nbf and jti are Optional.
RequiredClaimsPresent(p) ==
    /\ IsSome(p.iat)
    /\ IsSome(p.exp)
    /\ IsSome(p.iss)
    /\ IsSome(p.aud)
    /\ IsSome(p.sub)

\* The remaining ValidationOptions are biscuit's defaults: expiry, not-before
\* and issued-at are validated against the clock with no tolerance.
TemporalClaimsValid(p, t) ==
    /\ ~(t - Unwrap(p.exp) > 0)
    /\ (IsSome(p.nbf) => ~(Unwrap(p.nbf) - t > 0))
    /\ ~(Unwrap(p.iat) - t > 0)

\* Mutant of verify_access_token: the signature is not checked.
verify_access_token_NoSignatureCheck(creds, access_token, t) ==
    IF access_token.kind # "jwt" THEN Err("not a jwt")
    ELSE IF ~IsSome(access_token.header.kid) THEN Err("No jwt kid")
    ELSE IF Unwrap(access_token.header.kid) \notin creds.pub_key THEN Err("No secret for kid")
    ELSE IF ~RequiredClaimsPresent(access_token.payload) THEN Err("missing claim")
    ELSE IF ~TemporalClaimsValid(access_token.payload, t) THEN Err("temporal")
    ELSE Ok([claims |-> [scope |-> access_token.payload.scope,
                         client_id |-> access_token.payload.client_id,
                         uid |-> access_token.payload.uid],
             subject |-> Unwrap(access_token.payload.sub),
             audience |-> Head(Unwrap(access_token.payload.aud).values)])

\* Mutant of verify_access_token: of several audiences the last is returned.
verify_access_token_LastAudience(creds, access_token, t) ==
    IF access_token.kind # "jwt" THEN Err("not a jwt")
    ELSE IF ~IsSome(access_token.header.kid) THEN Err("No jwt kid")
    ELSE IF Unwrap(access_token.header.kid) \notin creds.pub_key THEN Err("No secret for kid")
    ELSE IF access_token.sig # Unwrap(access_token.header.kid) THEN Err("signature")
    ELSE IF ~RequiredClaimsPresent(access_token.payload) THEN Err("missing claim")
    ELSE IF ~TemporalClaimsValid(access_token.payload, t) THEN Err("temporal")
    ELSE Ok([claims |-> [scope |-> access_token.payload.scope,
                         client_id |-> access_token.payload.client_id,
                         uid |-> access_token.payload.uid],
             subject |-> Unwrap(access_token.payload.sub),
             audience |-> LET vs == Unwrap(access_token.payload.aud).values
                          IN vs[Len(vs)]])

verify_access_token(creds, access_token, t) ==
    IF access_token.kind # "jwt" THEN Err("not a jwt")
    ELSE IF ~IsSome(access_token.header.kid) THEN Err("No jwt kid")
    ELSE IF Unwrap(access_token.header.kid) \notin creds.pub_key THEN Err("No secret for kid")
    ELSE IF access_token.sig # Unwrap(access_token.header.kid) THEN Err("signature")
    ELSE IF ~RequiredClaimsPresent(access_token.payload) THEN Err("missing claim")
    ELSE IF ~TemporalClaimsValid(access_token.payload, t) THEN Err("temporal")
    ELSE Ok([claims |-> [scope |-> access_token.payload.scope,
                         client_id |-> access_token.payload.client_id,
                         uid |-> access_token.payload.uid],
             subject |-> Unwrap(access_token.payload.sub),
             audience |-> Head(Unwrap(access_token.payload.aud).values)])

(***************************************************************************)
(* The identity service (external).  A call either fails (transport error, *)
(* error status, undecodable body) or returns a response; an access token  *)
(* in a response is freshly issued: signed by the service's key, issued at *)
(* the time of the call and valid for TokenLifetimeMinutes.                *)
(***************************************************************************)
ServerToken(user, t) ==
    [kind |-> "jwt",
     header |-> [alg |-> "RS256", kid |-> Some("k2")],
     payload |-> [iss |-> Some("securetoken"),
                  aud |-> Some(Single("proj")),
                  sub |-> Some(user),
                  exp |-> Some(t + TokenLifetimeMinutes * SecondsPerMinute),
                  iat |-> Some(t),
                  nbf |-> None,
                  jti |-> None,
                  scope |-> None,
                  client_id |-> None,
                  uid |-> None],
     sig |-> "k2"]

\* RefreshTokenToAccessTokenResponse, or the failure of the call.
RefreshOutcomes(t) ==
    {Err("refresh failed")} \cup
    {Ok([id_token |-> ServerToken(u, t), refresh_token |-> r,
         user_id |-> u, project_id |-> "proj"]) : u \in Users, r \in RefreshTokens}

\* CustomJwtToFirebaseIDResponse for the user the custom token names, or failure.
CustomOutcomes(user, t) ==
    {Err("exchange failed")} \cup
    {Ok([idToken |-> ServerToken(u, t), refreshToken |-> r]) :
        u \in {user}, r \in {None} \cup {Some(x) : x \in RefreshTokens}}

(***************************************************************************)
(* sessions.rs, mod user                                                   *)
(***************************************************************************)
\* get_new_access_token: one POST to the refresh endpoint, carrying
\* refresh_token as the form parameter of that name.
get_new_access_token(api_key, refresh_token, outcome) ==
    [calls |-> <<[endpoint |-> "refresh", key |-> api_key,
                  param |-> refresh_token, response |-> outcome]>>,
     result |-> outcome]

get_new_access_token_async(api_key, refresh_token, outcome) ==
    [calls |-> <<[endpoint |-> "refresh", key |-> api_key,
                  param |-> refresh_token, response |-> outcome]>>,
     result |-> outcome]

user_BlockingSession_by_refresh_token(creds, refresh_token, outcome) ==
    LET r == get_new_access_token(creds.api_key, refresh_token, outcome) IN
    IF ~r.result.ok THEN [result |-> r.result, calls |-> r.calls]
    ELSE [result |-> Ok([user_id |-> r.result.val.user_id,
                         access_token_ |-> r.result.val.id_token,
                         refresh_token |-> Some(r.result.val.refresh_token),
                         project_id_ |-> creds.project_id,
                         api_key |-> creds.api_key]),
          calls |-> r.calls]

\* Mutant of by_refresh_token: the session keeps the refresh token passed in
\* instead of the one of the response.
user_AsyncSession_by_refresh_token_KeepsOld(creds, refresh_token, outcome) ==
    LET r == get_new_access_token_async(creds.api_key, refresh_token, outcome) IN
    IF ~r.result.ok THEN [result |-> r.result, calls |-> r.calls]
    ELSE [result |-> Ok([user_id |-> r.result.val.user_id,
                         access_token_ |-> r.result.val.id_token,
                         refresh_token |-> Some(refresh_token),
                         project_id_ |-> creds.project_id,
                         api_key |-> creds.api_key]),
          calls |-> r.calls]

user_AsyncSession_by_refresh_token(creds, refresh_token, outcome) ==
    LET r == get_new_access_token_async(creds.api_key, refresh_token, outcome) IN
    IF ~r.result.ok THEN [result |-> r.result, calls |-> r.calls]
    ELSE [result |-> Ok([user_id |-> r.result.val.user_id,
                         access_token_ |-> r.result.val.id_token,
                         refresh_token |-> Some(r.result.val.refresh_token),
                         project_id_ |-> creds.project_id,
                         api_key |-> creds.api_key]),
          calls |-> r.calls]

\* The custom token by_user_id signs: create_jwt then encode with the secret.
\* Duration::hours(1) is 60 minutes.
CustomToken(creds, user_id, t) ==
    Encode(create_jwt(creds, None, 60 * SecondsPerMinute, None, Some(user_id),
                      JWT_AUDIENCE_IDENTITY, t).val,
           Unwrap(creds.secret))

\* by_user_id: fails before any request when the credentials hold no secret.
user_BlockingSession_by_user_id(creds, user_id, with_refresh_token, t, outcome) ==
    IF ~IsSome(creds.secret) THEN [result |-> Err("No private key"), calls |-> <<>>]
    ELSE LET encoded == CustomToken(creds, user_id, t)
             call == [endpoint |-> "custom", key |-> creds.api_key,
                      param |-> encoded, response |-> outcome]
         IN IF ~outcome.ok THEN [result |-> outcome, calls |-> <<call>>]
            ELSE [result |-> Ok([user_id |-> user_id,
                                 access_token_ |-> outcome.val.idToken,
                                 refresh_token |-> outcome.val.refreshToken,
                                 project_id_ |-> creds.project_id,
                                 api_key |-> creds.api_key]),
                  calls |-> <<call>>]

user_AsyncSession_by_user_id(creds, user_id, with_refresh_token, t, outcome) ==
    IF ~IsSome(creds.secret) THEN [result |-> Err("No private key"), calls |-> <<>>]
    ELSE LET encoded == CustomToken(creds, user_id, t)
             call == [endpoint |-> "custom", key |-> creds.api_key,
                      param |-> encoded, response |-> outcome]
         IN IF ~outcome.ok THEN [result |-> outcome, calls |-> <<call>>]
            ELSE [result |-> Ok([user_id |-> user_id,
                                 access_token_ |-> outcome.val.idToken,
                                 refresh_token |-> outcome.val.refreshToken,
                                 project_id_ |-> creds.project_id,
                                 api_key |-> creds.api_key]),
                  calls |-> <<call>>]

\* Mutant of by_access_token: subject and audience are exchanged.
user_BlockingSession_by_access_token_Swapped(creds, access_token, t) ==
    LET result == verify_access_token(creds, access_token, t) IN
    IF ~result.ok THEN [result |-> result, calls |-> <<>>]
    ELSE [result |-> Ok([user_id |-> result.val.audience,
                         project_id_ |-> result.val.subject,
                         access_token_ |-> access_token,
                         refresh_token |-> None,
                         api_key |-> creds.api_key]),
          calls |-> <<>>]

\* by_access_token: verification only, no request.
user_BlockingSession_by_access_token(creds, access_token, t) ==
    LET result == verify_access_token(creds, access_token, t) IN
    IF ~result.ok THEN [result |-> result, calls |-> <<>>]
    ELSE [result |-> Ok([user_id |-> result.val.subject,
                         project_id_ |-> result.val.audience,
                         access_token_ |-> access_token,
                         refresh_token |-> None,
                         api_key |-> creds.api_key]),
          calls |-> <<>>]

user_AsyncSession_by_access_token(creds, access_token, t) ==
    LET result == verify_access_token(creds, access_token, t) IN
    IF ~result.ok THEN [result |-> result, calls |-> <<>>]
    ELSE [result |-> Ok([user_id |-> result.val.subject,
                         project_id_ |-> result.val.audience,
                         access_token_ |-> access_token,
                         refresh_token |-> None,
                         api_key |-> creds.api_key]),
          calls |-> <<>>]

\* Mutant of new: the refresh token is tried before the access token.
user_BlockingSession_new_RefreshFirst(creds, user_id, firebase_tokenid, refresh_token, t, net_refresh, net_custom) ==
    LET a == user_BlockingSession_by_access_token(creds, Unwrap(firebase_tokenid), t)
        b == user_BlockingSession_by_refresh_token(creds, Unwrap(refresh_token), net_refresh)
        c == user_BlockingSession_by_user_id(creds, Unwrap(user_id), TRUE, t, net_custom)
        tried1 == IF IsSome(refresh_token)
                  THEN [calls |-> b.calls,
                        attempts |-> <<[source |-> "refresh_token", ok |-> b.result.ok]>>]
                  ELSE [calls |-> <<>>, attempts |-> <<>>]
        tried2 == IF IsSome(firebase_tokenid)
                  THEN [calls |-> tried1.calls \o a.calls,
                        attempts |-> Append(tried1.attempts,
                                            [source |-> "access_token", ok |-> a.result.ok])]
                  ELSE tried1
        tried3 == IF IsSome(user_id)
                  THEN [calls |-> tried2.calls \o c.calls,
                        attempts |-> Append(tried2.attempts,
                                            [source |-> "user_id", ok |-> c.result.ok])]
                  ELSE tried2
    IN IF IsSome(refresh_token) /\ b.result.ok
       THEN [result |-> b.result, calls |-> tried1.calls, attempts |-> tried1.attempts]
       ELSE IF IsSome(firebase_tokenid) /\ a.result.ok
       THEN [result |-> Ok([a.result.val EXCEPT !.refresh_token = refresh_token]),
             calls |-> tried2.calls, attempts |-> tried2.attempts]
       ELSE IF IsSome(user_id) /\ c.result.ok
       THEN [result |-> c.result, calls |-> tried3.calls, attempts |-> tried3.attempts]
       ELSE [result |-> Err("No parameter given"),
             calls |-> tried3.calls, attempts |-> tried3.attempts]

\* Mutant of new: the user id is tried only when no refresh token was given
\* (an else-if in place of the third if).
user_AsyncSession_new_ElseIf(creds, user_id, firebase_tokenid, refresh_token, t, net_refresh, net_custom) ==
    LET a == user_AsyncSession_by_access_token(creds, Unwrap(firebase_tokenid), t)
        b == user_AsyncSession_by_refresh_token(creds, Unwrap(refresh_token), net_refresh)
        c == user_AsyncSession_by_user_id(creds, Unwrap(user_id), TRUE, t, net_custom)
        tried1 == IF IsSome(firebase_tokenid)
                  THEN [calls |-> a.calls,
                        attempts |-> <<[source |-> "access_token", ok |-> a.result.ok]>>]
                  ELSE [calls |-> <<>>, attempts |-> <<>>]
        tried2 == IF IsSome(refresh_token)
                  THEN [calls |-> tried1.calls \o b.calls,
                        attempts |-> Append(tried1.attempts,
                                            [source |-> "refresh_token", ok |-> b.result.ok])]
                  ELSE tried1
        tried3 == IF IsSome(user_id) /\ ~IsSome(refresh_token)
                  THEN [calls |-> tried2.calls \o c.calls,
                        attempts |-> Append(tried2.attempts,
                                            [source |-> "user_id", ok |-> c.result.ok])]
                  ELSE tried2
    IN IF IsSome(firebase_tokenid) /\ a.result.ok
       THEN [result |-> Ok([a.result.val EXCEPT !.refresh_token = refresh_token]),
             calls |-> tried1.calls, attempts |-> tried1.attempts]
       ELSE IF IsSome(refresh_token) /\ b.result.ok
       THEN [result |-> b.result, calls |-> tried2.calls, attempts |-> tried2.attempts]
       ELSE IF IsSome(user_id) /\ ~IsSome(refresh_token) /\ c.result.ok
       THEN [result |-> c.result, calls |-> tried3.calls, attempts |-> tried3.attempts]
       ELSE [result |-> Err("No parameter given"),
             calls |-> tried3.calls, attempts |-> tried3.attempts]

\* new: access token, then refresh token, then user id; the first source that
\* succeeds is returned.  attempts lists the sources tried, in order, each
\* with its result.
user_BlockingSession_new(creds, user_id, firebase_tokenid, refresh_token, t, net_refresh, net_custom) ==
    LET a == user_BlockingSession_by_access_token(creds, Unwrap(firebase_tokenid), t)
        b == user_BlockingSession_by_refresh_token(creds, Unwrap(refresh_token), net_refresh)
        c == user_BlockingSession_by_user_id(creds, Unwrap(user_id), TRUE, t, net_custom)
        tried1 == IF IsSome(firebase_tokenid)
                  THEN [calls |-> a.calls,
                        attempts |-> <<[source |-> "access_token", ok |-> a.result.ok]>>]
                  ELSE [calls |-> <<>>, attempts |-> <<>>]
        tried2 == IF IsSome(refresh_token)
                  THEN [calls |-> tried1.calls \o b.calls,
                        attempts |-> Append(tried1.attempts,
                                            [source |-> "refresh_token", ok |-> b.result.ok])]
                  ELSE tried1
        tried3 == IF IsSome(user_id)
                  THEN [calls |-> tried2.calls \o c.calls,
                        attempts |-> Append(tried2.attempts,
                                            [source |-> "user_id", ok |-> c.result.ok])]
                  ELSE tried2
    IN IF IsSome(firebase_tokenid) /\ a.result.ok
       THEN [result |-> Ok([a.result.val EXCEPT !.refresh_token = refresh_token]),
             calls |-> tried1.calls, attempts |-> tried1.attempts]
       ELSE IF IsSome(refresh_token) /\ b.result.ok
       THEN [result |-> b.result, calls |-> tried2.calls, attempts |-> tried2.attempts]
       ELSE IF IsSome(user_id) /\ c.result.ok
       THEN [result |-> c.result, calls |-> tried3.calls, attempts |-> tried3.attempts]
       ELSE [result |-> Err("No parameter given"),
             calls |-> tried3.calls, attempts |-> tried3.attempts]

user_AsyncSession_new(creds, user_id, firebase_tokenid, refresh_token, t, net_refresh, net_custom) ==
    LET a == user_AsyncSession_by_access_token(creds, Unwrap(firebase_tokenid), t)
        b == user_AsyncSession_by_refresh_token(creds, Unwrap(refresh_token), net_refresh)
        c == user_AsyncSession_by_user_id(creds, Unwrap(user_id), TRUE, t, net_custom)
        tried1 == IF IsSome(firebase_tokenid)
                  THEN [calls |-> a.calls,
                        attempts |-> <<[source |-> "access_token", ok |-> a.result.ok]>>]
                  ELSE [calls |-> <<>>, attempts |-> <<>>]
        tried2 == IF IsSome(refresh_token)
                  THEN [calls |-> tried1.calls \o b.calls,
                        attempts |-> Append(tried1.attempts,
                                            [source |-> "refresh_token", ok |-> b.result.ok])]
                  ELSE tried1
        tried3 == IF IsSome(user_id)
                  THEN [calls |-> tried2.calls \o c.calls,
                        attempts |-> Append(tried2.attempts,
                                            [source |-> "user_id", ok |-> c.result.ok])]
                  ELSE tried2
    IN IF IsSome(firebase_tokenid) /\ a.result.ok
       THEN [result |-> Ok([a.result.val EXCEPT !.refresh_token = refresh_token]),
             calls |-> tried1.calls, attempts |-> tried1.attempts]
       ELSE IF IsSome(refresh_token) /\ b.result.ok
       THEN [result |-> b.result, calls |-> tried2.calls, attempts |-> tried2.attempts]
       ELSE IF IsSome(user_id) /\ c.result.ok
       THEN [result |-> c.result, calls |-> tried3.calls, attempts |-> tried3.attempts]
       ELSE [result |-> Err("No parameter given"),
             calls |-> tried3.calls, attempts |-> tried3.attempts]

\* std::cell::RefCell: the borrow flag counts the outstanding shared borrows.
\* borrow() adds one; swap() takes borrow_mut(), which aborts unless the flag
\* is zero.
RefCell_borrow(flag) == flag + 1
RefCell_swap_aborts(flag) == flag # 0

\* Mutant of access_token: the refresh request is issued before the expiry
\* check, its response used only when the token is expired.
user_BlockingSession_access_token_EagerRefresh(self, t, outcome) ==
    LET flag == RefCell_borrow(0)
        jwt == self.access_token_
        expired == is_expired(jwt, 0, t)
        r == get_new_access_token(self.api_key, jwt, outcome)
    IN IF ~expired.ok
       THEN [panic |-> TRUE, ret |-> EmptyString, self |-> self, calls |-> r.calls]
       ELSE IF expired.val
       THEN IF r.result.ok
            THEN IF RefCell_swap_aborts(flag)
                 THEN [panic |-> TRUE, ret |-> EmptyString, self |-> self,
                       calls |-> r.calls]
                 ELSE [panic |-> FALSE, ret |-> r.result.val.id_token,
                       self |-> [self EXCEPT !.access_token_ = r.result.val.id_token],
                       calls |-> r.calls]
            ELSE [panic |-> FALSE, ret |-> EmptyString, self |-> self, calls |-> r.calls]
       ELSE [panic |-> FALSE, ret |-> jwt, self |-> self, calls |-> r.calls]

\* Blocking access_token.  The Ref taken by borrow() in the first statement
\* lives to the end of the function: the second `jwt` only shadows it.
user_BlockingSession_access_token(self, t, outcome) ==
    LET flag == RefCell_borrow(0)
        jwt == self.access_token_
        expired == is_expired(jwt, 0, t)
        r == get_new_access_token(self.api_key, jwt, outcome)
    IN IF ~expired.ok
       THEN [panic |-> TRUE, ret |-> EmptyString, self |-> self, calls |-> <<>>]
       ELSE IF expired.val
       THEN IF r.result.ok
            THEN IF RefCell_swap_aborts(flag)
                 THEN [panic |-> TRUE, ret |-> EmptyString, self |-> self,
                       calls |-> r.calls]
                 ELSE [panic |-> FALSE, ret |-> r.result.val.id_token,
                       self |-> [self EXCEPT !.access_token_ = r.result.val.id_token],
                       calls |-> r.calls]
            ELSE [panic |-> FALSE, ret |-> EmptyString, self |-> self, calls |-> r.calls]
       ELSE [panic |-> FALSE, ret |-> jwt, self |-> self, calls |-> <<>>]

\* Mutant of access_token: a failed refresh returns the stale cached token.
user_AsyncSession_access_token_ReturnsStale(self, t, outcome) ==
    LET jwt == self.access_token_
        expired == is_expired(jwt, 0, t)
        r == get_new_access_token_async(self.api_key, jwt, outcome)
    IN IF ~expired.ok
       THEN [panic |-> TRUE, ret |-> EmptyString, self |-> self, calls |-> <<>>]
       ELSE IF expired.val
       THEN IF r.result.ok
            THEN [panic |-> FALSE, ret |-> r.result.val.id_token,
                  self |-> [self EXCEPT !.access_token_ = r.result.val.id_token],
                  calls |-> r.calls]
            ELSE [panic |-> FALSE, ret |-> jwt, self |-> self, calls |-> r.calls]
       ELSE [panic |-> FALSE, ret |-> jwt, self |-> self, calls |-> <<>>]

\* Mutant of access_token: a failed refresh caches the empty string it returns.
user_AsyncSession_access_token_StoresEmpty(self, t, outcome) ==
    LET jwt == self.access_token_
        expired == is_expired(jwt, 0, t)
        r == get_new_access_token_async(self.api_key, jwt, outcome)
    IN IF ~expired.ok
       THEN [panic |-> TRUE, ret |-> EmptyString, self |-> self, calls |-> <<>>]
       ELSE IF expired.val
       THEN IF r.result.ok
            THEN [panic |-> FALSE, ret |-> r.result.val.id_token,
                  self |-> [self EXCEPT !.access_token_ = r.result.val.id_token],
                  calls |-> r.calls]
            ELSE [panic |-> FALSE, ret |-> EmptyString,
                  self |-> [self EXCEPT !.access_token_ = EmptyString],
                  calls |-> r.calls]
       ELSE [panic |-> FALSE, ret |-> jwt, self |-> self, calls |-> <<>>]

\* Mutant of access_token: a failed refresh request is sent a second time.
user_AsyncSession_access_token_Retries(self, t, outcome) ==
    LET jwt == self.access_token_
        expired == is_expired(jwt, 0, t)
        r == get_new_access_token_async(self.api_key, jwt, outcome)
    IN IF ~expired.ok
       THEN [panic |-> TRUE, ret |-> EmptyString, self |-> self, calls |-> <<>>]
       ELSE IF expired.val
       THEN IF r.result.ok
            THEN [panic |-> FALSE, ret |-> r.result.val.id_token,
                  self |-> [self EXCEPT !.access_token_ = r.result.val.id_token],
                  calls |-> r.calls]
            ELSE [panic |-> FALSE, ret |-> EmptyString, self |-> self,
                  calls |-> r.calls \o r.calls]
       ELSE [panic |-> FALSE, ret |-> jwt, self |-> self, calls |-> <<>>]

\* Async access_token: &mut self, the cached token is assigned.
user_AsyncSession_access_token(self, t, outcome) ==
    LET jwt == self.access_token_
        expired == is_expired(jwt, 0, t)
        r == get_new_access_token_async(self.api_key, jwt, outcome)
    IN IF ~expired.ok
       THEN [panic |-> TRUE, ret |-> EmptyString, self |-> self, calls |-> <<>>]
       ELSE IF expired.val
       THEN IF r.result.ok
            THEN [panic |-> FALSE, ret |-> r.result.val.id_token,
                  self |-> [self EXCEPT !.access_token_ = r.result.val.id_token],
                  calls |-> r.calls]
            ELSE [panic |-> FALSE, ret |-> EmptyString, self |-> self, calls |-> r.calls]
       ELSE [panic |-> FALSE, ret |-> jwt, self |-> self, calls |-> <<>>]

\* Mutant of access_token_unchecked: the refresh token is returned when the
\* session holds one.
user_BlockingSession_access_token_unchecked_RefreshToken(self) ==
    IF IsSome(self.refresh_token) THEN Unwrap(self.refresh_token) ELSE self.access_token_

user_BlockingSession_access_token_unchecked(self) == self.access_token_

user_AsyncSession_access_token_unchecked(self) == self.access_token_

(***************************************************************************)
(* State machine: one impersonated session, blocking or async.             *)
(*   st    "none" before construction, "live" with a session, "failed"     *)
(*         when construction returned an error, "panicked" after an abort  *)
(*   sess  the session's fields                                            *)
(*   last  the operation that has just completed: its inputs, the session  *)
(*         before it, what it returned and the requests it issued, in      *)
(*         order                                                           *)
(***************************************************************************)
NoSession == [kind |-> "nosession"]
NoArgs == [user_id |-> None, firebase_tokenid |-> None, refresh_token |-> None]

Credentials(secret) ==
    [api_key |-> "apikey", project_id |-> "proj", client_email |-> "svc@proj",
     private_key_id |-> "k1", secret |-> secret, pub_key |-> {"k1", "k2"}]

\* Access tokens a caller may hand to the constructor: tokens the identity
\* service issued at minute 0 or 1, and defective variants of one of them.
BaseToken == ServerToken("alice", 0)
InputTokens ==
    {ServerToken(u, m * SecondsPerMinute) : u \in Users, m \in {0, 1}} \cup
    {[BaseToken EXCEPT !.header.kid = Some("kX"), !.sig = "kX"],
     [BaseToken EXCEPT !.header.kid = None],
     [BaseToken EXCEPT !.sig = "forged"],
     [BaseToken EXCEPT !.payload.exp = None],
     [BaseToken EXCEPT !.payload.sub = None],
     Opaque("garbage")}

OptionOf(S) == {None} \cup {Some(x) : x \in S}

\* No operation has just completed.
Idle ==
    [op |-> "none", now |-> 0, args |-> NoArgs, pre |-> NoSession,
     ret |-> EmptyString, ok |-> TRUE, panic |-> FALSE,
     calls |-> <<>>, attempts |-> <<>>]

Init ==
    /\ variant \in {"blocking", "async"}
    /\ credentials \in {Credentials(None), Credentials(Some("k1"))}
    /\ now = 0
    /\ st = "none"
    /\ sess = NoSession
    /\ last = Idle

\* The clock advances by half a minute; the operation that had just completed
\* is then in the past.
Tick ==
    /\ now < MaxMinutes * SecondsPerMinute
    /\ now' = now + SecondsPerMinute \div 2
    /\ last' = Idle
    /\ UNCHANGED <<variant, credentials, st, sess>>

New ==
    /\ st = "none"
    /\ \E user_id \in OptionOf(Users), firebase_tokenid \in OptionOf(InputTokens),
          refresh_token \in OptionOf(RefreshTokens) :
       \E net_refresh \in RefreshOutcomes(now) :
       \E net_custom \in UNION {CustomOutcomes(u, now) : u \in Users} :
          /\ (IsSome(user_id) /\ net_custom.ok
                => net_custom \in CustomOutcomes(Unwrap(user_id), now))
          /\ LET r == IF variant = "blocking"
                      THEN user_BlockingSession_new(credentials, user_id, firebase_tokenid,
                                                    refresh_token, now, net_refresh, net_custom)
                      ELSE user_AsyncSession_new(credentials, user_id, firebase_tokenid,
                                                 refresh_token, now, net_refresh, net_custom)
             IN /\ st' = IF r.result.ok THEN "live" ELSE "failed"
                /\ sess' = IF r.result.ok THEN r.result.val ELSE NoSession
                /\ last' = [op |-> "new", now |-> now,
                            args |-> [user_id |-> user_id,
                                      firebase_tokenid |-> firebase_tokenid,
                                      refresh_token |-> refresh_token],
                            pre |-> NoSession, ret |-> EmptyString,
                            ok |-> r.result.ok, panic |-> FALSE,
                            calls |-> r.calls, attempts |-> r.attempts]
    /\ UNCHANGED <<variant, credentials, now>>

AccessToken ==
    /\ st = "live"
    /\ \E outcome \in RefreshOutcomes(now) :
          LET r == IF variant = "blocking"
                   THEN user_BlockingSession_access_token(sess, now, outcome)
                   ELSE user_AsyncSession_access_token(sess, now, outcome)
          IN /\ st' = IF r.panic THEN "panicked" ELSE "live"
             /\ sess' = r.self
             /\ last' = [op |-> "access_token", now |-> now, args |-> NoArgs,
                         pre |-> sess, ret |-> r.ret, ok |-> ~r.panic,
                         panic |-> r.panic, calls |-> r.calls, attempts |-> <<>>]
    /\ UNCHANGED <<variant, credentials, now>>

AccessTokenUnchecked ==
    /\ st = "live"
    /\ last' = [op |-> "access_token_unchecked", now |-> now, args |-> NoArgs,
                pre |-> sess,
                ret |-> IF variant = "blocking"
                        THEN user_BlockingSession_access_token_unchecked(sess)
                        ELSE user_AsyncSession_access_token_unchecked(sess),
                ok |-> TRUE, panic |-> FALSE, calls |-> <<>>, attempts |-> <<>>]
    /\ UNCHANGED <<variant, credentials, now, st, sess>>

Next == Tick \/ New \/ AccessToken \/ AccessTokenUnchecked

Spec == Init /\ [][Next]_vars

(***************************************************************************)
(* Properties of impersonated-session construction.                        *)
(***************************************************************************)
Sources == {"access_token", "refresh_token", "user_id"}

SourceRank(s) ==
    CASE s = "access_token" -> 1
      [] s = "refresh_token" -> 2
      [] s = "user_id" -> 3

\* The source's argument was given to the constructor.
Supplied(s) ==
    CASE s = "access_token" -> IsSome(last.args.firebase_tokenid)
      [] s = "refresh_token" -> IsSome(last.args.refresh_token)
      [] s = "user_id" -> IsSome(last.args.user_id)

\* The requests of the last operation to one endpoint.
CallsTo(endpoint) == {k \in DOMAIN last.calls : last.calls[k].endpoint = endpoint}

\* A token is valid and unexpired at time t: it carries the id of a known key
\* and that key's signature, every required claim, an expiry not before t and
\* an issue time (and not-before time, if any) not after t.
ValidUnexpired(tok, t) ==
    /\ tok.kind = "jwt"
    /\ \E k \in credentials.pub_key : tok.header.kid = Some(k) /\ tok.sig = k
    /\ IsSome(tok.payload.iat) /\ IsSome(tok.payload.exp) /\ IsSome(tok.payload.iss)
    /\ IsSome(tok.payload.aud) /\ IsSome(tok.payload.sub)
    /\ \A e \in tok.payload.exp : e >= t
    /\ \A i \in tok.payload.iat : i <= t
    /\ \A n \in tok.payload.nbf : n <= t

\* Whether a source, tried by the last construction, yielded a session.
SourceSucceeded(s) ==
    CASE s = "access_token" ->
            /\ Supplied(s)
            /\ ValidUnexpired(Unwrap(last.args.firebase_tokenid), last.now)
      [] s = "refresh_token" ->
            \E k \in CallsTo("refresh") :
                /\ last.calls[k].param \in last.args.refresh_token
                /\ last.calls[k].response.ok
      [] s = "user_id" ->
            \E k \in CallsTo("custom") :
                /\ last.calls[k].param.payload.uid = last.args.user_id
                /\ last.calls[k].response.ok

EndpointSource(endpoint) ==
    IF endpoint = "refresh" THEN "refresh_token" ELSE "user_id"

\* C1: construction tries the access token, then the refresh token, then the
\* user id, and stops at the first success: the sources tried are in that
\* order, only the last one tried may have succeeded, a source is tried only
\* after every earlier supplied source was tried and failed, and requests are
\* issued only for the sources tried, one each, in the same order.
C1_SourcesInOrderStopAtFirstSuccess ==
    last.op = "new" =>
        LET att == last.attempts IN
        /\ \A i, j \in DOMAIN att :
              i < j => SourceRank(att[i].source) < SourceRank(att[j].source)
        /\ \A i \in DOMAIN att :
              /\ Supplied(att[i].source)
              /\ att[i].ok <=> SourceSucceeded(att[i].source)
              /\ i < Len(att) => ~att[i].ok
        /\ \A j \in DOMAIN att : \A s \in Sources :
              (Supplied(s) /\ SourceRank(s) < SourceRank(att[j].source))
                 => \E i \in 1..(j - 1) : att[i].source = s /\ ~att[i].ok
        /\ \A k \in DOMAIN last.calls :
              \E j \in DOMAIN att : att[j].source = EndpointSource(last.calls[k].endpoint)
        /\ \A k, l \in DOMAIN last.calls :
              k < l => SourceRank(EndpointSource(last.calls[k].endpoint))
                         < SourceRank(EndpointSource(last.calls[l].endpoint))
        /\ (SourceSucceeded("access_token") => last.calls = <<>>)
        /\ (SourceSucceeded("refresh_token") => CallsTo("custom") = {})

\* C1 witness: all three arguments supplied, the access token fails
\* verification, the refresh exchange succeeds, and no custom-token exchange
\* is issued for the user id.
C1_Witness ==
    /\ last.op = "new"
    /\ \A s \in Sources : Supplied(s)
    /\ IsSome(credentials.secret)
    /\ Len(last.attempts) = 2
    /\ ~last.attempts[1].ok
    /\ last.attempts[2].source = "refresh_token"
    /\ last.attempts[2].ok
    /\ Len(last.calls) = 1

\* C2 (scenario A): from a valid, unexpired access token T1 construction
\* issues no request and yields a session with T1's subject as user id
\* (whatever user id was passed), T1 as cached token and the refresh token
\* that was passed.
C2_ValidTokenAdopted ==
    (last.op = "new" /\ Supplied("access_token")
        /\ ValidUnexpired(Unwrap(last.args.firebase_tokenid), last.now))
    => /\ last.ok
       /\ st = "live"
       /\ last.calls = <<>>
       /\ sess.user_id \in Unwrap(last.args.firebase_tokenid).payload.sub
       /\ sess.access_token_ = Unwrap(last.args.firebase_tokenid)
       /\ sess.refresh_token = last.args.refresh_token

\* C2 witness: a valid token of alice, passed with user id bob and a refresh
\* token, gives a session of alice.
C2_Witness ==
    /\ last.op = "new"
    /\ last.args.user_id = Some("bob")
    /\ last.args.refresh_token = Some(Opaque("R1"))
    /\ Supplied("access_token")
    /\ ValidUnexpired(Unwrap(last.args.firebase_tokenid), last.now)
    /\ st = "live"
    /\ sess.user_id = "alice"
    /\ last.calls = <<>>

\* A token that carries an expiry earlier than t.
ExpiredAt(tok, t) ==
    /\ tok.kind = "jwt"
    /\ \E e \in tok.payload.exp : e < t

\* C3 (scenario B): from an expired access token and a refresh token that the
\* refresh endpoint accepts, construction issues exactly one request, the
\* refresh exchange for that refresh token, and no custom-token exchange; the
\* session holds the access token and the refresh token of the response, and
\* that access token differs from the expired one passed in.
C3_ExpiredTokenRefreshed ==
    (last.op = "new" /\ Supplied("access_token") /\ Supplied("refresh_token")
        /\ ExpiredAt(Unwrap(last.args.firebase_tokenid), last.now)
        /\ \A k \in CallsTo("refresh") : last.calls[k].response.ok)
    => /\ Len(last.calls) = 1
       /\ last.calls[1].endpoint = "refresh"
       /\ last.calls[1].param = Unwrap(last.args.refresh_token)
       /\ last.ok
       /\ st = "live"
       /\ sess.access_token_ = last.calls[1].response.val.id_token
       /\ sess.access_token_ # Unwrap(last.args.firebase_tokenid)
       /\ sess.refresh_token = Some(last.calls[1].response.val.refresh_token)

\* C3 witness: an expired token of alice and refresh token R1, with a user id
\* supplied as well; the exchange returns a new token and refresh token R2.
C3_Witness ==
    /\ last.op = "new"
    /\ Supplied("access_token")
    /\ ExpiredAt(Unwrap(last.args.firebase_tokenid), last.now)
    /\ ValidUnexpired(Unwrap(last.args.firebase_tokenid), 0)
    /\ last.args.refresh_token = Some(Opaque("R1"))
    /\ Supplied("user_id")
    /\ st = "live"
    /\ Len(last.calls) = 1
    /\ sess.refresh_token = Some(Opaque("R2"))

\* A supplied source was tried by the last construction.
SourceTried(s) ==
    CASE s = "access_token" -> TRUE
      [] s = "refresh_token" ->
            \E k \in CallsTo("refresh") : last.calls[k].param \in last.args.refresh_token
      [] s = "user_id" ->
            \/ ~IsSome(credentials.secret)
            \/ \E k \in CallsTo("custom") :
                  last.calls[k].param.payload.uid = last.args.user_id

\* C4: construction returns an error, and no session, exactly when no
\* supplied source succeeds (each supplied source having been tried); with
\* no argument at all it fails without issuing a request.
C4_ErrorIffNoSourceSucceeds ==
    last.op = "new" =>
        /\ ~last.ok <=> \A s \in Sources : Supplied(s) => ~SourceSucceeded(s)
        /\ ~last.ok => /\ st = "failed"
                       /\ sess = NoSession
                       /\ \A s \in Sources : Supplied(s) => SourceTried(s)
        /\ last.ok => st = "live" /\ sess # NoSession
        /\ last.args = NoArgs => ~last.ok /\ last.calls = <<>>

\* C4 witness: all three sources supplied and tried, each failing: two
\* requests issued, an error returned.
C4_Witness ==
    /\ last.op = "new"
    /\ \A s \in Sources : Supplied(s)
    /\ Len(last.calls) = 2
    /\ st = "failed"

(***************************************************************************)
(* Properties of access_token() of an impersonated session.                *)
(***************************************************************************)
\* The last operation was access_token() on a cached token that
\* is_expired(token, 0) reports as expired.
CalledOnExpired ==
    /\ last.op = "access_token"
    /\ is_expired(last.pre.access_token_, 0, last.now) = Ok(TRUE)

\* ... and its refresh exchange succeeded.
RefreshSucceeded ==
    /\ CalledOnExpired
    /\ \E k \in CallsTo("refresh") : last.calls[k].response.ok

\* ... or no refresh exchange of it succeeded.
RefreshFailed ==
    /\ CalledOnExpired
    /\ \A k \in DOMAIN last.calls : ~last.calls[k].response.ok

\* The response of the refresh exchange of the last operation.
RefreshResponse ==
    last.calls[CHOOSE k \in CallsTo("refresh") : last.calls[k].response.ok].response.val

\* access_token_unchecked() of the current session.
Unchecked ==
    IF variant = "blocking"
    THEN user_BlockingSession_access_token_unchecked(sess)
    ELSE user_AsyncSession_access_token_unchecked(sess)

\* C5: when the cached token is expired and the refresh exchange succeeds,
\* access_token() of either variant returns the new access token and caches
\* it, so that access_token_unchecked() gives the same token.
C5_RefreshReturnsAndCachesNewToken ==
    RefreshSucceeded =>
        /\ ~last.panic
        /\ st = "live"
        /\ last.ret = RefreshResponse.id_token
        /\ sess.access_token_ = RefreshResponse.id_token
        /\ Unchecked = last.ret

\* C6: a successful refresh by access_token() replaces both tokens: the
\* session, which held a refresh token, then holds the access token and the
\* refresh token of the response.
C6_RefreshReplacesBothTokens ==
    (RefreshSucceeded /\ ~last.panic /\ IsSome(last.pre.refresh_token)) =>
        /\ sess.access_token_ = RefreshResponse.id_token
        /\ sess.refresh_token = Some(RefreshResponse.refresh_token)

\* C7: the refresh request that access_token() issues for a session holding
\* a refresh token carries that stored refresh token as its refresh_token
\* parameter.
C7_RequestCarriesStoredRefreshToken ==
    (CalledOnExpired /\ IsSome(last.pre.refresh_token)) =>
        \A k \in DOMAIN last.calls :
            /\ last.calls[k].endpoint = "refresh"
            /\ last.calls[k].param \in last.pre.refresh_token

\* C8 (scenario D): when the cached token is expired and the refresh exchange
\* fails, access_token() has issued that one request, returns the empty
\* string and does not abort.
C8_FailedRefreshReturnsEmptyString ==
    RefreshFailed =>
        /\ Len(last.calls) = 1
        /\ last.calls[1].endpoint = "refresh"
        /\ ~last.panic
        /\ st = "live"
        /\ last.ret = EmptyString

\* C8 witness: a blocking session, its token expired, whose refresh exchange
\* failed.
C8_Witness ==
    /\ RefreshFailed
    /\ variant = "blocking"
    /\ Len(last.calls) = 1
    /\ last.ret = EmptyString

\* C9: a failed refresh leaves the session as it was: cached token, refresh
\* token, user id, api key and project id; the empty string is not cached.
C9_FailedRefreshLeavesSessionUnchanged ==
    RefreshFailed =>
        /\ sess = last.pre
        /\ sess.access_token_ # EmptyString
        /\ Unchecked = last.pre.access_token_

\* C9 witness: an async session holding a refresh token, after a failed
\* refresh.
C9_Witness ==
    /\ RefreshFailed
    /\ variant = "async"
    /\ Len(last.calls) = 1
    /\ IsSome(sess.refresh_token)
    /\ sess = last.pre

\* C10: when is_expired(token, 0) is false for the cached token,
\* access_token() returns the cached token, issues no request and leaves the
\* session unchanged.
C10_FreshTokenReturnedUnchanged ==
    (last.op = "access_token"
        /\ is_expired(last.pre.access_token_, 0, last.now) = Ok(FALSE))
    => /\ ~last.panic
       /\ st = "live"
       /\ last.ret = last.pre.access_token_
       /\ last.calls = <<>>
       /\ sess = last.pre

\* C10 witness: access_token() on a session whose token has not expired,
\* some time after the session was made.
C10_Witness ==
    /\ last.op = "access_token"
    /\ is_expired(last.pre.access_token_, 0, last.now) = Ok(FALSE)
    /\ \E i \in last.pre.access_token_.payload.iat : i < last.now
    /\ last.ret = sess.access_token_
    /\ last.calls = <<>>

(***************************************************************************)
(* jwt.rs: jwt_update_expiry_if.                                           *)
(***************************************************************************)
\* Mutant of jwt_update_expiry_if: the age test is >= instead of >.
jwt_update_expiry_if_AtLeast(jwt, expire_in_minutes, t) ==
    IF IsSome(jwt.payload.iat)
    THEN IF NumMinutes(t - Unwrap(jwt.payload.iat)) >= expire_in_minutes
         THEN [changed |-> TRUE, jwt |-> [jwt EXCEPT !.payload.iat = Some(t)]]
         ELSE [changed |-> FALSE, jwt |-> jwt]
    ELSE [changed |-> TRUE, jwt |-> [jwt EXCEPT !.payload.iat = Some(t)]]

\* Mutant of jwt_update_expiry_if: a stale claim set also gets a new expiry.
jwt_update_expiry_if_RenewsExpiry(jwt, expire_in_minutes, t) ==
    IF IsSome(jwt.payload.iat)
    THEN IF NumMinutes(t - Unwrap(jwt.payload.iat)) > expire_in_minutes
         THEN [changed |-> TRUE,
               jwt |-> [jwt EXCEPT !.payload.iat = Some(t),
                                   !.payload.exp = Some(t + expire_in_minutes * SecondsPerMinute)]]
         ELSE [changed |-> FALSE, jwt |-> jwt]
    ELSE [changed |-> TRUE, jwt |-> [jwt EXCEPT !.payload.iat = Some(t)]]

\* Mutant of jwt_update_expiry_if: a stale issued-at is reported, not replaced.
jwt_update_expiry_if_NoStamp(jwt, expire_in_minutes, t) ==
    IF IsSome(jwt.payload.iat)
    THEN IF NumMinutes(t - Unwrap(jwt.payload.iat)) > expire_in_minutes
         THEN [changed |-> TRUE, jwt |-> jwt]
         ELSE [changed |-> FALSE, jwt |-> jwt]
    ELSE [changed |-> TRUE, jwt |-> [jwt EXCEPT !.payload.iat = Some(t)]]

\* jwt_update_expiry_if: the claim set after the call and the returned flag.
\* Only claims.issued_at is ever assigned.
jwt_update_expiry_if(jwt, expire_in_minutes, t) ==
    IF IsSome(jwt.payload.iat)
    THEN IF NumMinutes(t - Unwrap(jwt.payload.iat)) > expire_in_minutes
         THEN [changed |-> TRUE, jwt |-> [jwt EXCEPT !.payload.iat = Some(t)]]
         ELSE [changed |-> FALSE, jwt |-> jwt]
    ELSE [changed |-> TRUE, jwt |-> [jwt EXCEPT !.payload.iat = Some(t)]]

(***************************************************************************)
(* sessions.rs: mod service_account.                                       *)
(***************************************************************************)
\* jwt.rs:18
JWT_AUDIENCE_FIRESTORE == "firestore"

\* The age, in minutes, that access_token passes to jwt_update_expiry_if.
ReissueAfterMinutes == 50

\* Duration::hours(1), the lifetime new passes to create_jwt, in minutes.
HourMinutes == 60

\* RefCell::borrow_mut on a cell nobody borrows: the cell is borrowed for
\* writing (a negative count) while the RefMut lives.
RefCell_borrow_mut(flag) == flag - 1
\* RefCell::borrow panics while the cell is borrowed for writing.
RefCell_borrow_aborts(flag) == flag < 0

service_account_BlockingSession_new(creds, t) ==
    LET jwt == create_jwt(creds, None, HourMinutes * SecondsPerMinute, None, None, JWT_AUDIENCE_FIRESTORE, t)
    IN IF ~jwt.ok THEN jwt
       ELSE IF ~IsSome(creds.secret)
       THEN Err("No private key added via add_keypair_key!")
       ELSE Ok([access_token_ |-> Encode(jwt.val, Unwrap(creds.secret)),
                jwt |-> jwt.val,
                credentials |-> creds])

service_account_AsyncSession_new(creds, t) ==
    LET jwt == create_jwt(creds, None, HourMinutes * SecondsPerMinute, None, None, JWT_AUDIENCE_FIRESTORE, t)
    IN IF ~jwt.ok THEN jwt
       ELSE IF ~IsSome(creds.secret)
       THEN Err("No private key added via add_keypair_key!")
       ELSE Ok([access_token_ |-> Encode(jwt.val, Unwrap(creds.secret)),
                jwt |-> jwt.val,
                credentials |-> creds])

\* Blocking access_token.  The RefMut taken by borrow_mut() in the first
\* statement lives to the end of the function, so the borrow() that reads
\* the claim set for signing finds the cell borrowed for writing.  The
\* issued-at was already assigned through the RefMut when that happens.
service_account_BlockingSession_access_token(self, t) ==
    LET flag == RefCell_borrow_mut(0)
        u == jwt_update_expiry_if(self.jwt, ReissueAfterMinutes, t)
        updated == [self EXCEPT !.jwt = u.jwt]
    IN IF u.changed
       THEN IF IsSome(self.credentials.secret)
            THEN IF RefCell_borrow_aborts(flag)
                 THEN [panic |-> TRUE, ret |-> EmptyString, self |-> updated,
                       changed |-> u.changed, calls |-> <<>>]
                 ELSE LET v2 == Encode(u.jwt, Unwrap(self.credentials.secret))
                      IN [panic |-> FALSE, ret |-> v2,
                          self |-> [updated EXCEPT !.access_token_ = v2],
                          changed |-> u.changed, calls |-> <<>>]
            ELSE [panic |-> FALSE, ret |-> self.access_token_, self |-> updated,
                  changed |-> u.changed, calls |-> <<>>]
       ELSE [panic |-> FALSE, ret |-> self.access_token_, self |-> updated,
             changed |-> u.changed, calls |-> <<>>]

\* Mutant of access_token: the token is signed from the claim set as it was
\* before the issued-at update.
service_account_AsyncSession_access_token_SignsOld(self, t) ==
    LET u == jwt_update_expiry_if(self.jwt, ReissueAfterMinutes, t)
        updated == [self EXCEPT !.jwt = u.jwt]
    IN IF u.changed
       THEN IF IsSome(self.credentials.secret)
            THEN LET v2 == Encode(self.jwt, Unwrap(self.credentials.secret))
                 IN [panic |-> FALSE, ret |-> v2,
                     self |-> [updated EXCEPT !.access_token_ = v2],
                     changed |-> u.changed, calls |-> <<>>]
            ELSE [panic |-> FALSE, ret |-> self.access_token_, self |-> updated,
                  changed |-> u.changed, calls |-> <<>>]
       ELSE [panic |-> FALSE, ret |-> self.access_token_, self |-> updated,
             changed |-> u.changed, calls |-> <<>>]

\* Mutant of access_token: with no signing key the cached token is cleared.
service_account_AsyncSession_access_token_ClearsWithoutKey(self, t) ==
    LET u == jwt_update_expiry_if(self.jwt, ReissueAfterMinutes, t)
        updated == [self EXCEPT !.jwt = u.jwt]
    IN IF u.changed
       THEN IF IsSome(self.credentials.secret)
            THEN LET v2 == Encode(u.jwt, Unwrap(self.credentials.secret))
                 IN [panic |-> FALSE, ret |-> v2,
                     self |-> [updated EXCEPT !.access_token_ = v2],
                     changed |-> u.changed, calls |-> <<>>]
            ELSE [panic |-> FALSE, ret |-> EmptyString,
                  self |-> [updated EXCEPT !.access_token_ = EmptyString],
                  changed |-> u.changed, calls |-> <<>>]
       ELSE [panic |-> FALSE, ret |-> self.access_token_, self |-> updated,
             changed |-> u.changed, calls |-> <<>>]

\* Mutant of access_token: a stale token is exchanged at the identity service.
service_account_AsyncSession_access_token_AsksService(self, t) ==
    LET u == jwt_update_expiry_if(self.jwt, ReissueAfterMinutes, t)
        updated == [self EXCEPT !.jwt = u.jwt]
        request == [endpoint |-> "refresh", key |-> self.credentials.api_key,
                    param |-> self.access_token_, response |-> Err("transport")]
    IN IF u.changed
       THEN IF IsSome(self.credentials.secret)
            THEN LET v2 == Encode(u.jwt, Unwrap(self.credentials.secret))
                 IN [panic |-> FALSE, ret |-> v2,
                     self |-> [updated EXCEPT !.access_token_ = v2],
                     changed |-> u.changed, calls |-> <<request>>]
            ELSE [panic |-> FALSE, ret |-> self.access_token_, self |-> updated,
                  changed |-> u.changed, calls |-> <<request>>]
       ELSE [panic |-> FALSE, ret |-> self.access_token_, self |-> updated,
             changed |-> u.changed, calls |-> <<>>]

\* Async access_token: &mut self, no RefCell; the claim set is read for
\* signing after the update.
service_account_AsyncSession_access_token(self, t) ==
    LET u == jwt_update_expiry_if(self.jwt, ReissueAfterMinutes, t)
        updated == [self EXCEPT !.jwt = u.jwt]
    IN IF u.changed
       THEN IF IsSome(self.credentials.secret)
            THEN LET v2 == Encode(u.jwt, Unwrap(self.credentials.secret))
                 IN [panic |-> FALSE, ret |-> v2,
                     self |-> [updated EXCEPT !.access_token_ = v2],
                     changed |-> u.changed, calls |-> <<>>]
            ELSE [panic |-> FALSE, ret |-> self.access_token_, self |-> updated,
                  changed |-> u.changed, calls |-> <<>>]
       ELSE [panic |-> FALSE, ret |-> self.access_token_, self |-> updated,
             changed |-> u.changed, calls |-> <<>>]

service_account_BlockingSession_access_token_unchecked(self) == self.access_token_

service_account_AsyncSession_access_token_unchecked(self) == self.access_token_

(***************************************************************************)
(* State machine of one service-account session, blocking or async.        *)
(*   sess  the session's fields: credentials, jwt (the claim set), and     *)
(*         access_token_ (the cached encoded token)                        *)
(*   last  the operation that has just completed, and in `signals` the     *)
(*         times at which jwt_update_expiry_if returned true so far        *)
(***************************************************************************)
\* The clock takes at most MaxHalfMinutes half-minute steps after each jump.
MaxHalfMinutes == 4
\* The clock jumps ahead by ReissueAfterMinutes at most MaxJumps times.
MaxJumps == 2

SAIdle(signals) ==
    [op |-> "none", now |-> 0, pre |-> NoSession, ret |-> EmptyString,
     ok |-> TRUE, panic |-> FALSE, changed |-> FALSE, calls |-> <<>>,
     signals |-> signals]

SAInit ==
    /\ variant \in {"blocking", "async"}
    /\ credentials \in {Credentials(None), Credentials(Some("k1"))}
    /\ now = 0
    /\ st = "none"
    /\ sess = NoSession
    /\ last = SAIdle(<<>>)

\* The clock advances by half a minute.
SATick ==
    /\ now % (ReissueAfterMinutes * SecondsPerMinute) < MaxHalfMinutes * (SecondsPerMinute \div 2)
    /\ now' = now + SecondsPerMinute \div 2
    /\ last' = SAIdle(last.signals)
    /\ UNCHANGED <<variant, credentials, st, sess>>

\* A long idle period: the clock advances by ReissueAfterMinutes.
SAJump ==
    /\ now \div (ReissueAfterMinutes * SecondsPerMinute) < MaxJumps
    /\ now' = now + ReissueAfterMinutes * SecondsPerMinute
    /\ last' = SAIdle(last.signals)
    /\ UNCHANGED <<variant, credentials, st, sess>>

SANew ==
    /\ st = "none"
    /\ LET r == IF variant = "blocking"
                THEN service_account_BlockingSession_new(credentials, now)
                ELSE service_account_AsyncSession_new(credentials, now)
       IN /\ st' = IF r.ok THEN "live" ELSE "failed"
          /\ sess' = IF r.ok THEN r.val ELSE NoSession
          /\ last' = [op |-> "new", now |-> now, pre |-> NoSession,
                      ret |-> EmptyString, ok |-> r.ok, panic |-> FALSE,
                      changed |-> FALSE, calls |-> <<>>, signals |-> <<>>]
    /\ UNCHANGED <<variant, credentials, now>>

\* The caller assigns None to the key of the session's public credentials
\* field.
SAClearSecret ==
    /\ st = "live"
    /\ IsSome(sess.credentials.secret)
    /\ sess' = [sess EXCEPT !.credentials.secret = None]
    /\ last' = SAIdle(last.signals)
    /\ UNCHANGED <<variant, credentials, now, st>>

SAAccessToken ==
    /\ st = "live"
    /\ LET r == IF variant = "blocking"
                THEN service_account_BlockingSession_access_token(sess, now)
                ELSE service_account_AsyncSession_access_token(sess, now)
       IN /\ st' = IF r.panic THEN "panicked" ELSE "live"
          /\ sess' = r.self
          /\ last' = [op |-> "access_token", now |-> now, pre |-> sess,
                      ret |-> r.ret, ok |-> ~r.panic, panic |-> r.panic,
                      changed |-> r.changed, calls |-> r.calls,
                      signals |-> IF r.changed THEN Append(last.signals, now)
                                  ELSE last.signals]
    /\ UNCHANGED <<variant, credentials, now>>

SAAccessTokenUnchecked ==
    /\ st = "live"
    /\ last' = [op |-> "access_token_unchecked", now |-> now, pre |-> sess,
                ret |-> IF variant = "blocking"
                        THEN service_account_BlockingSession_access_token_unchecked(sess)
                        ELSE service_account_AsyncSession_access_token_unchecked(sess),
                ok |-> TRUE, panic |-> FALSE, changed |-> FALSE, calls |-> <<>>,
                signals |-> last.signals]
    /\ UNCHANGED <<variant, credentials, now, st, sess>>

SANext ==
    SATick \/ SAJump \/ SANew \/ SAClearSecret \/ SAAccessToken \/ SAAccessTokenUnchecked

SpecSA == SAInit /\ [][SANext]_vars

(***************************************************************************)
(* Properties of the service-account session.                              *)
(***************************************************************************)
\* A service-account access_token call has just completed.
SACalled == last.op = "access_token"

\* Seconds since the issued-at of the claim set the call found.
SAAge == last.now - Unwrap(last.pre.jwt.payload.iat)

\* The call found a signing key in the session's credentials.
SAKeyPresent == IsSome(last.pre.credentials.secret)

\* C11: every token that access_token returns on a service-account session
\* is valid when it is returned: its expiry is later than the current time.
C11_ReturnedTokenUnexpired ==
    (SACalled /\ SAKeyPresent /\ ~last.panic) =>
        /\ last.ret.kind = "jwt"
        /\ IsSome(last.ret.payload.exp)
        /\ Unwrap(last.ret.payload.exp) > last.now

\* C12: a call that finds the issued-at more than 50 minutes old, with the
\* signing key present, returns in both variants a newly signed token whose
\* issued-at is the current time, and that token is the cached token.
C12_StaleTokenResigned ==
    (SACalled /\ SAKeyPresent /\ SAAge > ReissueAfterMinutes * SecondsPerMinute) =>
        /\ ~last.panic
        /\ last.ret.kind = "jwt"
        /\ last.ret.payload.iat = Some(last.now)
        /\ last.ret.sig = Unwrap(last.pre.credentials.secret)
        /\ sess.access_token_ = last.ret

\* C13: a call that finds the issued-at at most 50 minutes old returns the
\* cached token and leaves the claim set and the cached token as they were.
C13_FreshTokenUntouched ==
    (SACalled /\ SAAge <= ReissueAfterMinutes * SecondsPerMinute) =>
        /\ ~last.panic
        /\ last.ret = last.pre.access_token_
        /\ sess.jwt = last.pre.jwt
        /\ sess.access_token_ = last.pre.access_token_

\* A call at exactly 50 minutes of age has returned.
C13_Witness ==
    /\ SACalled
    /\ SAAge = ReissueAfterMinutes * SecondsPerMinute
    /\ last.ret = sess.access_token_

\* The call re-signed: the claim set was updated, the key was present and
\* the call returned.
SAResigned == SACalled /\ last.changed /\ SAKeyPresent /\ ~last.panic

\* C14: after a successful resign the cached token is the encoding of the
\* session's claim set: both carry the same issued-at.
C14_CachedTokenEncodesClaimSet ==
    SAResigned =>
        /\ sess.access_token_ = Encode(sess.jwt, Unwrap(sess.credentials.secret))
        /\ sess.access_token_.payload.iat = sess.jwt.payload.iat

\* A resign has succeeded and changed the cached token.
C14_Witness ==
    /\ SAResigned
    /\ sess.access_token_ # last.pre.access_token_
    /\ sess.jwt.payload.iat = Some(last.now)

\* C15: when a resign is needed and the signing key is missing, the call
\* returns the cached token without failing, and the cached token stays.
C15_MissingKeyReturnsCachedToken ==
    (SACalled /\ last.changed /\ ~SAKeyPresent) =>
        /\ ~last.panic
        /\ last.ok
        /\ last.ret = last.pre.access_token_
        /\ sess.access_token_ = last.pre.access_token_

\* The blocking variant has returned the stale cached token for want of a key.
C15_Witness ==
    /\ SACalled
    /\ variant = "blocking"
    /\ last.changed
    /\ ~SAKeyPresent
    /\ last.ret = sess.access_token_
    /\ SAAge > ReissueAfterMinutes * SecondsPerMinute

\* C16: access_token on a service-account session issues no network request.
C16_NoNetworkCall ==
    SACalled => last.calls = <<>>

\* A token has been re-signed locally.
C16_Witness ==
    /\ SAResigned
    /\ last.ret # last.pre.access_token_
    /\ last.calls = <<>>

\* C17: from equal session states and at the same time, the blocking and
\* the async access_token return the same token, leave the same session
\* state, and neither aborts where the other returns.
C17_VariantsAgree ==
    st = "live" =>
        LET b == service_account_BlockingSession_access_token(sess, now)
            a == service_account_AsyncSession_access_token(sess, now)
        IN /\ b.panic = a.panic
           /\ b.ret = a.ret
           /\ b.self = a.self

\* C19: between two calls at which jwt_update_expiry_if signals a resign,
\* more than 50 minutes have elapsed.
C19_ResignsMoreThanMaxAgeApart ==
    \A i \in 1..(Len(last.signals) - 1) :
        last.signals[i + 1] - last.signals[i] > ReissueAfterMinutes * SecondsPerMinute

\* Two resigns have been signalled on one session.
C19_Witness ==
    /\ SACalled
    /\ last.changed
    /\ Len(last.signals) >= 2

(***************************************************************************)
(* State machine for the token helpers of jwt.rs, applied to one claim     *)
(* set as the clock advances.                                              *)
(*   sess  the decoded token (header and claim set) under test             *)
(*   last  the helper that has just been applied: its arguments, the       *)
(*         claim set before it and what it returned                        *)
(***************************************************************************)
\* The clock of the helpers' state machine runs to MaxHelperMinutes minutes.
MaxHelperMinutes == 3

\* Issued-at and expiry claims of the claim sets under test, in seconds.
ClaimTimes == {0, SecondsPerMinute, 2 * SecondsPerMinute}

\* Ages passed to jwt_update_expiry_if, tolerances passed to is_expired.
AgeArgs == {0, 1, 2}
ToleranceArgs == {-1, 0, 1}

JwtIdle ==
    [op |-> "none", now |-> 0, arg |-> 0, pre |-> NoSession, token |-> EmptyString,
     changed |-> FALSE, ret |-> Ok(FALSE)]

\* Claim sets as create_jwt builds them, with the issued-at and the expiry
\* present or absent.
JwtInputs ==
    {[create_jwt(Credentials(Some("k1")), None, 0, None, None, JWT_AUDIENCE_FIRESTORE, 0).val
        EXCEPT !.payload.iat = iat, !.payload.exp = exp] :
     iat \in OptionOf(ClaimTimes), exp \in OptionOf(ClaimTimes)}

JwtInit ==
    /\ variant = "blocking"
    /\ credentials = Credentials(Some("k1"))
    /\ now = 0
    /\ st = "live"
    /\ sess \in JwtInputs
    /\ last = JwtIdle

JwtTick ==
    /\ now < MaxHelperMinutes * SecondsPerMinute
    /\ now' = now + SecondsPerMinute \div 2
    /\ last' = JwtIdle
    /\ UNCHANGED <<variant, credentials, st, sess>>

\* jwt_update_expiry_if is applied to the claim set.
JwtUpdateExpiryIf ==
    /\ \E expire_in_minutes \in AgeArgs :
          LET u == jwt_update_expiry_if(sess, expire_in_minutes, now)
          IN /\ sess' = u.jwt
             /\ last' = [op |-> "jwt_update_expiry_if", now |-> now,
                         arg |-> expire_in_minutes, pre |-> sess,
                         token |-> EmptyString, changed |-> u.changed,
                         ret |-> Ok(u.changed)]
    /\ UNCHANGED <<variant, credentials, now, st>>

\* is_expired is applied to an encoding of the claim set, signed by the
\* service account's key or by a key nobody knows, or to a string that is
\* not a token.
JwtIsExpired ==
    /\ \E tolerance_in_minutes \in ToleranceArgs :
       \E token \in {Encode(sess, "k1"), Encode(sess, "forged"), Opaque("garbage")} :
          last' = [op |-> "is_expired", now |-> now, arg |-> tolerance_in_minutes,
                   pre |-> sess, token |-> token, changed |-> FALSE,
                   ret |-> is_expired(token, tolerance_in_minutes, now)]
    /\ UNCHANGED <<variant, credentials, now, st, sess>>

JwtNext == JwtTick \/ JwtUpdateExpiryIf \/ JwtIsExpired

SpecJwt == JwtInit /\ [][JwtNext]_vars

(***************************************************************************)
(* Properties of the token helpers.                                        *)
(***************************************************************************)
\* Whole minutes in a span of d seconds, counted toward zero.
WholeMinutes(d) ==
    IF d >= 0
    THEN CHOOSE m \in 0..d : m * SecondsPerMinute <= d /\ d < (m + 1) * SecondsPerMinute
    ELSE -(CHOOSE m \in 0..(-d) : m * SecondsPerMinute <= -d /\ -d < (m + 1) * SecondsPerMinute)

\* C18: jwt_update_expiry_if sets an absent issued-at to the current time
\* and signals a resign; it does the same to an issued-at whose age in whole
\* minutes exceeds the given age; otherwise it signals no change and leaves
\* the claim set as it was.  It never modifies a claim other than issued-at.
C18_UpdateExpiryIf ==
    last.op = "jwt_update_expiry_if" =>
        LET before == last.pre.payload
            after == sess.payload
            stale == \/ ~IsSome(before.iat)
                     \/ WholeMinutes(last.now - Unwrap(before.iat)) > last.arg
        IN /\ stale => (last.changed /\ after.iat = Some(last.now))
           /\ ~stale => (~last.changed /\ sess = last.pre)
           /\ sess = [last.pre EXCEPT !.payload.iat = after.iat]
           /\ after.exp = before.exp

\* A stale issued-at has been replaced in a claim set with an expiry.
C18_Witness ==
    /\ last.op = "jwt_update_expiry_if"
    /\ IsSome(last.pre.payload.iat)
    /\ IsSome(last.pre.payload.exp)
    /\ last.changed
    /\ sess.payload.iat = Some(last.now)
    /\ sess.payload.iat # last.pre.payload.iat

\* C20: on a decodable token is_expired returns true exactly when the token
\* has no expiry claim or the whole minutes since the expiry, less the
\* tolerance, are positive; the signature plays no part.
C20_IsExpired ==
    (last.op = "is_expired" /\ last.token.kind = "jwt") =>
        LET exp == last.token.payload.exp
            expected == \/ ~IsSome(exp)
                        \/ WholeMinutes(last.now - Unwrap(exp)) - last.arg > 0
        IN /\ last.ret = Ok(expected)
           /\ is_expired([last.token EXCEPT !.sig = "k1"], last.arg, last.now) = last.ret

\* A token with a forged signature, past its expiry, has been reported
\* expired.
C20_Witness ==
    /\ last.op = "is_expired"
    /\ last.token.kind = "jwt"
    /\ last.token.sig = "forged"
    /\ IsSome(last.token.payload.exp)
    /\ last.ret = Ok(TRUE)

\* C21: is_expired is monotonic in the tolerance: a token that is not
\* expired under a tolerance is not expired under any larger tolerance.
C21_ExpiredMonotonicInTolerance ==
    (last.op = "is_expired" /\ last.token.kind = "jwt" /\ last.ret = Ok(FALSE)) =>
        \A tol2 \in ToleranceArgs :
            last.arg <= tol2 => is_expired(last.token, tol2, last.now) = Ok(FALSE)

\* A token past its expiry is not expired under tolerance 0, though it is
\* under a smaller tolerance, and a larger tolerance exists.
C21_Witness ==
    /\ last.op = "is_expired"
    /\ last.token.kind = "jwt"
    /\ last.arg = 0
    /\ last.ret = Ok(FALSE)
    /\ IsSome(last.token.payload.exp)
    /\ last.now > Unwrap(last.token.payload.exp)
    /\ is_expired(last.token, -1, last.now) = Ok(TRUE)
    /\ \E tol2 \in ToleranceArgs : tol2 > last.arg

(***************************************************************************)
(* jwt.rs: create_jwt_encoded and the session-cookie assertion.            *)
(***************************************************************************)
\* Mutant of create_jwt_encoded: without a private key the token is
\* returned unsigned.
create_jwt_encoded_Unsigned(creds, scope, duration, client_id, user_id, audience, t) ==
    LET jwt == create_jwt(creds, scope, duration, client_id, user_id, audience, t)
    IN IF ~jwt.ok THEN jwt
       ELSE IF ~IsSome(creds.secret)
       THEN Ok(Encode(jwt.val, "none"))
       ELSE Ok(Encode(jwt.val, Unwrap(creds.secret)))

create_jwt_encoded(creds, scope, duration, client_id, user_id, audience, t) ==
    LET jwt == create_jwt(creds, scope, duration, client_id, user_id, audience, t)
    IN IF ~jwt.ok THEN jwt
       ELSE IF ~IsSome(creds.secret)
       THEN Err("No private key added via add_keypair_key!")
       ELSE Ok(Encode(jwt.val, Unwrap(creds.secret)))

\* slice::join: the pieces with the separator between consecutive pieces.
RECURSIVE Join(_, _)
Join(pieces, sep) ==
    IF pieces = <<>> THEN <<>>
    ELSE IF Len(pieces) = 1 THEN pieces
    ELSE <<Head(pieces), sep>> \o Join(Tail(pieces), sep)

\* The scopes and the audience of the session-cookie assertion.
SessionCookieScopes ==
    <<"https://www.googleapis.com/auth/cloud-platform",
      "https://www.googleapis.com/auth/firebase.database",
      "https://www.googleapis.com/auth/firebase.messaging",
      "https://www.googleapis.com/auth/identitytoolkit",
      "https://www.googleapis.com/auth/userinfo.email">>
SessionCookieAudience == "https://accounts.google.com/o/oauth2/token"

\* jwt::session_cookie::create_jwt_encoded
session_cookie_create_jwt_encoded(creds, duration, t) ==
    LET jwt == [header |-> [alg |-> "RS256", kid |-> Some(creds.private_key_id)],
                payload |-> [iss |-> Some(creds.client_email),
                             aud |-> Some(Single(SessionCookieAudience)),
                             sub |-> Some(creds.client_email),
                             exp |-> Some(t + duration),
                             iat |-> Some(t),
                             nbf |-> None,
                             jti |-> None,
                             scope |-> Some(Join(SessionCookieScopes, " ")),
                             client_id |-> None,
                             uid |-> None]]
    IN IF ~IsSome(creds.secret)
       THEN Err("No private key added via add_keypair_key!")
       ELSE Ok(Encode(jwt, Unwrap(creds.secret)))

(***************************************************************************)
(* sessions.rs: mod session_cookie.  The two services are external: each   *)
(* request either fails (transport error, undecodable body) or is answered.*)
(***************************************************************************)
\* Answers of Google's OAuth2 token endpoint and of createSessionCookie.
Oauth2Outcomes ==
    {Err("oauth2 failed")} \cup
    {Ok([access_token |-> Opaque(a), expires_in |-> HourMinutes * SecondsPerMinute,
         token_type |-> "Bearer"]) : a \in {"A1", "A2"}}
CookieOutcomes ==
    {Err("createSessionCookie failed"), Ok([session_cookie_jwk |-> Opaque("cookie")])}

\* Mutant of create: the session-cookie request is authenticated with the
\* assertion instead of the access token the exchange returned.
session_cookie_create_BearerIsAssertion(creds, id_token, duration, t, oauth2, cookie) ==
    LET assertion == session_cookie_create_jwt_encoded(creds, duration, t)
        call1 == [endpoint |-> "oauth2", grant_type |-> "jwt-bearer",
                  assertion |-> assertion.val, response |-> oauth2]
        call2 == [endpoint |-> "createSessionCookie", project_id |-> creds.project_id,
                  bearer |-> assertion.val, id_token |-> id_token,
                  valid_duration |-> duration, response |-> cookie]
    IN IF ~assertion.ok THEN [result |-> assertion, calls |-> <<>>]
       ELSE IF ~oauth2.ok THEN [result |-> oauth2, calls |-> <<call1>>]
       ELSE IF ~cookie.ok THEN [result |-> cookie, calls |-> <<call1, call2>>]
       ELSE [result |-> Ok(cookie.val.session_cookie_jwk), calls |-> <<call1, call2>>]

\* session_cookie::create: sign the assertion, exchange it, request the
\* cookie; each `?` returns the error at once.
session_cookie_create(creds, id_token, duration, t, oauth2, cookie) ==
    LET assertion == session_cookie_create_jwt_encoded(creds, duration, t)
        call1 == [endpoint |-> "oauth2", grant_type |-> "jwt-bearer",
                  assertion |-> assertion.val, response |-> oauth2]
        call2 == [endpoint |-> "createSessionCookie", project_id |-> creds.project_id,
                  bearer |-> oauth2.val.access_token, id_token |-> id_token,
                  valid_duration |-> duration, response |-> cookie]
    IN IF ~assertion.ok THEN [result |-> assertion, calls |-> <<>>]
       ELSE IF ~oauth2.ok THEN [result |-> oauth2, calls |-> <<call1>>]
       ELSE IF ~cookie.ok THEN [result |-> cookie, calls |-> <<call1, call2>>]
       ELSE [result |-> Ok(cookie.val.session_cookie_jwk), calls |-> <<call1, call2>>]

session_cookie_async_create(creds, id_token, duration, t, oauth2, cookie) ==
    LET assertion == session_cookie_create_jwt_encoded(creds, duration, t)
        call1 == [endpoint |-> "oauth2", grant_type |-> "jwt-bearer",
                  assertion |-> assertion.val, response |-> oauth2]
        call2 == [endpoint |-> "createSessionCookie", project_id |-> creds.project_id,
                  bearer |-> oauth2.val.access_token, id_token |-> id_token,
                  valid_duration |-> duration, response |-> cookie]
    IN IF ~assertion.ok THEN [result |-> assertion, calls |-> <<>>]
       ELSE IF ~oauth2.ok THEN [result |-> oauth2, calls |-> <<call1>>]
       ELSE IF ~cookie.ok THEN [result |-> cookie, calls |-> <<call1, call2>>]
       ELSE [result |-> Ok(cookie.val.session_cookie_jwk), calls |-> <<call1, call2>>]

(***************************************************************************)
(* State machine of the operations that build, sign and verify tokens      *)
(* with one credential.                                                    *)
(*   st    "none" before any token is at hand, "built" when the token at   *)
(*         hand came from create_jwt_encoded, "received" when it was       *)
(*         handed in by a client                                           *)
(*   sess  the token at hand and, for a built token, the claim set it was  *)
(*         signed from                                                     *)
(*   last  the operation that has just completed                           *)
(***************************************************************************)
\* The clock of this state machine runs to MaxSignMinutes minutes.
MaxSignMinutes == 2

\* Arguments of create_jwt_encoded.
ScopeArgs == OptionOf({<<>>, <<"read">>, <<"read", "write">>})
DurationArgs == {SecondsPerMinute, 2 * SecondsPerMinute}
IdArgs ==
    {[client_id |-> None, user_id |-> None],
     [client_id |-> Some("client"), user_id |-> None],
     [client_id |-> None, user_id |-> Some("alice")]}
AudienceArgs == {JWT_AUDIENCE_FIRESTORE, JWT_AUDIENCE_IDENTITY}

\* Tokens a client may hand in: one the identity service issued at time 0,
\* and variants of it that lack a header field or a claim, carry optional
\* claims or several audiences, or were not signed by the key they name.
ReceivedTokens ==
    {BaseToken,
     [BaseToken EXCEPT !.header.kid = None],
     [BaseToken EXCEPT !.header.kid = Some("kX"), !.sig = "kX"],
     [BaseToken EXCEPT !.sig = "forged"],
     [BaseToken EXCEPT !.payload.iat = None],
     [BaseToken EXCEPT !.payload.exp = None],
     [BaseToken EXCEPT !.payload.iss = None],
     [BaseToken EXCEPT !.payload.aud = None],
     [BaseToken EXCEPT !.payload.sub = None],
     [BaseToken EXCEPT !.payload.nbf = Some(0), !.payload.jti = Some("id1")],
     [BaseToken EXCEPT !.payload.aud = Some(Multiple(<<"proj", "other">>)),
                       !.payload.scope = Some(<<"read", " ">>)],
     Opaque("garbage")}

SignIdle ==
    [op |-> "none", now |-> 0, args |-> NoArgs, token |-> EmptyString,
     built |-> Err("none"), ret |-> Err("none"), calls |-> <<>>]

SignInit ==
    /\ variant \in {"blocking", "async"}
    /\ credentials \in {Credentials(None), Credentials(Some("k1"))}
    /\ now = 0
    /\ st = "none"
    /\ sess = [token |-> EmptyString, jwt |-> NoSession]
    /\ last = SignIdle

\* The clock advances by a minute.
SignTick ==
    /\ now < MaxSignMinutes * SecondsPerMinute
    /\ now' = now + SecondsPerMinute
    /\ last' = SignIdle
    /\ UNCHANGED <<variant, credentials, st, sess>>

\* create_jwt_encoded is called while no token is at hand; the token it
\* returns is then the token at hand.
SignCreateJwtEncoded ==
    /\ st = "none"
    /\ \E scope \in ScopeArgs, duration \in DurationArgs, ids \in IdArgs, audience \in AudienceArgs :
          LET built == create_jwt(credentials, scope, duration, ids.client_id, ids.user_id, audience, now)
              r == create_jwt_encoded(credentials, scope, duration, ids.client_id, ids.user_id, audience, now)
          IN /\ st' = IF r.ok THEN "built" ELSE st
             /\ sess' = IF r.ok THEN [token |-> r.val, jwt |-> built.val] ELSE sess
             /\ last' = [op |-> "create_jwt_encoded", now |-> now,
                         args |-> [scope |-> scope, duration |-> duration,
                                   client_id |-> ids.client_id, user_id |-> ids.user_id,
                                   audience |-> audience],
                         token |-> EmptyString, built |-> built, ret |-> r,
                         calls |-> <<>>]
    /\ UNCHANGED <<variant, credentials, now>>

\* A client hands in a token while no token is at hand.
SignReceive ==
    /\ st = "none"
    /\ \E token \in ReceivedTokens :
          sess' = [token |-> token, jwt |-> NoSession]
    /\ st' = "received"
    /\ last' = SignIdle
    /\ UNCHANGED <<variant, credentials, now>>

\* verify_access_token is applied to the token at hand.
SignVerify ==
    /\ st # "none"
    /\ last' = [op |-> "verify_access_token", now |-> now, args |-> NoArgs,
                token |-> sess.token, built |-> Err("none"),
                ret |-> verify_access_token(credentials, sess.token, now),
                calls |-> <<>>]
    /\ UNCHANGED <<variant, credentials, now, st, sess>>

\* A service-account session is constructed from the credential.
SignServiceAccountNew ==
    /\ LET r == IF variant = "blocking"
                THEN service_account_BlockingSession_new(credentials, now)
                ELSE service_account_AsyncSession_new(credentials, now)
       IN last' = [op |-> "service_account_new", now |-> now, args |-> NoArgs,
                   token |-> EmptyString, built |-> Err("none"), ret |-> r,
                   calls |-> <<>>]
    /\ UNCHANGED <<variant, credentials, now, st, sess>>

\* An impersonated session is constructed by user id.
SignByUserId ==
    /\ \E user_id \in Users, with_refresh_token \in BOOLEAN :
       \E outcome \in CustomOutcomes(user_id, now) :
          LET r == IF variant = "blocking"
                   THEN user_BlockingSession_by_user_id(credentials, user_id, with_refresh_token, now, outcome)
                   ELSE user_AsyncSession_by_user_id(credentials, user_id, with_refresh_token, now, outcome)
          IN last' = [op |-> "by_user_id", now |-> now, args |-> NoArgs,
                      token |-> EmptyString, built |-> Err("none"),
                      ret |-> r.result, calls |-> r.calls]
    /\ UNCHANGED <<variant, credentials, now, st, sess>>

\* A session cookie is minted for an id token of the identity service.
SignSessionCookie ==
    /\ \E duration \in DurationArgs, oauth2 \in Oauth2Outcomes, cookie \in CookieOutcomes :
          LET id_token == ServerToken("alice", now)
              r == IF variant = "blocking"
                   THEN session_cookie_create(credentials, id_token, duration, now, oauth2, cookie)
                   ELSE session_cookie_async_create(credentials, id_token, duration, now, oauth2, cookie)
          IN last' = [op |-> "session_cookie", now |-> now,
                      args |-> [id_token |-> id_token, duration |-> duration,
                                oauth2 |-> oauth2, cookie |-> cookie],
                      token |-> EmptyString, built |-> Err("none"),
                      ret |-> r.result, calls |-> r.calls]
    /\ UNCHANGED <<variant, credentials, now, st, sess>>

SignNext ==
    \/ SignTick
    \/ SignCreateJwtEncoded
    \/ SignReceive
    \/ SignVerify
    \/ SignServiceAccountNew
    \/ SignByUserId
    \/ SignSessionCookie

SpecSign == SignInit /\ [][SignNext]_vars

(***************************************************************************)
(* Properties of building, signing and verifying tokens.                   *)
(***************************************************************************)
\* verify_access_token has just been applied to a decodable token.
Verified == last.op = "verify_access_token" /\ last.token.kind = "jwt"

\* The key id of the token names a key of the credential's key set.
KeyKnown(tok) ==
    /\ IsSome(tok.header.kid)
    /\ Unwrap(tok.header.kid) \in credentials.pub_key

\* C22: verify succeeds only when the key id of the token names a key of
\* the credential's key set and the signature was made by that key; a token
\* whose key id is missing or not in the set is rejected; a rejection
\* returns an error and none of the token's claims.
C22_VerifyRequiresKnownKeyAndSignature ==
    Verified =>
        /\ last.ret.ok => (KeyKnown(last.token) /\ last.token.sig = Unwrap(last.token.header.kid))
        /\ ~KeyKnown(last.token) => ~last.ret.ok
        /\ ~last.ret.ok => DOMAIN last.ret = {"ok", "err"}

\* A token signed with a key that is not in the key set has been rejected.
C22_Witness ==
    /\ Verified
    /\ last.token.header.kid = Some("kX")
    /\ last.token.sig = "kX"
    /\ ~last.ret.ok

\* C23: verify rejects a token that lacks issued-at, expiry, issuer,
\* audience or subject, whatever its signature; a rejected token without
\* not-before or id is rejected with them as well.
C23_VerifyRequiresClaims ==
    Verified =>
        LET p == last.token.payload
            complete == [last.token EXCEPT !.payload.nbf = Some(last.now),
                                           !.payload.jti = Some("id1")]
        IN /\ (~IsSome(p.iat) \/ ~IsSome(p.exp) \/ ~IsSome(p.iss)
                \/ ~IsSome(p.aud) \/ ~IsSome(p.sub)) => ~last.ret.ok
           /\ ~last.ret.ok => ~verify_access_token(credentials, complete, last.now).ok
           /\ (last.token = BaseToken /\ last.now = 0) => last.ret.ok

\* A token with a valid signature and no issuer has been rejected.
C23_Witness ==
    /\ Verified
    /\ last.token = [BaseToken EXCEPT !.payload.iss = None]
    /\ last.now = 0
    /\ ~last.ret.ok

\* C24: on success verify returns the private claims of the token, its
\* subject, and its audience: the single audience, or the first of several.
C24_VerifyReturnsClaims ==
    (Verified /\ last.ret.ok) =>
        LET p == last.token.payload
            aud == Unwrap(p.aud)
        IN /\ last.ret.val.claims = [scope |-> p.scope, client_id |-> p.client_id, uid |-> p.uid]
           /\ last.ret.val.subject = Unwrap(p.sub)
           /\ IF aud.multiple
              THEN last.ret.val.audience = aud.values[1]
              ELSE aud.values = <<last.ret.val.audience>>

\* A token with two audiences has been accepted.
C24_Witness ==
    /\ Verified
    /\ last.ret.ok
    /\ Unwrap(last.token.payload.aud) = Multiple(<<"proj", "other">>)
    /\ last.ret.val.audience = "proj"

Built == last.op = "create_jwt_encoded"

\* C26: the claim set create_jwt builds has the credential's account email
\* as issuer and subject, the given audience, client id and user id, the
\* header RS256 with the credential's key id, issued-at = now and
\* expiry = issued-at + duration.
C26_BuilderClaims ==
    Built =>
        /\ last.built.ok
        /\ last.built.val.header = [alg |-> "RS256", kid |-> Some(credentials.private_key_id)]
        /\ last.built.val.payload.iss = Some(credentials.client_email)
        /\ last.built.val.payload.sub = Some(credentials.client_email)
        /\ last.built.val.payload.aud = Some(Single(last.args.audience))
        /\ last.built.val.payload.client_id = last.args.client_id
        /\ last.built.val.payload.uid = last.args.user_id
        /\ last.built.val.payload.iat = Some(last.now)
        /\ last.args.duration > 0 =>
              last.built.val.payload.exp = Some(last.now + last.args.duration)

\* A claim set with a user id has been built after the clock moved.
C26_Witness ==
    /\ Built
    /\ last.now > 0
    /\ last.args.duration > SecondsPerMinute
    /\ last.args.user_id = Some("alice")
    /\ last.built.val.payload.uid = Some("alice")
    /\ last.ret.ok

\* C27: the scope claim is the supplied scopes joined by a single space,
\* with no leading or trailing separator; the empty string for an empty
\* sequence; absent only when no sequence is supplied.
C27_ScopeJoinedBySingleSpace ==
    Built =>
        IF IsSome(last.args.scope)
        THEN last.built.val.payload.scope = Some(Join(Unwrap(last.args.scope), " "))
        ELSE last.built.val.payload.scope = None

\* An operation that must sign has just completed.
SigningOperation ==
    last.op \in {"create_jwt_encoded", "service_account_new", "by_user_id", "session_cookie"}

\* C28: with no signing key in the credential, every operation that must
\* sign fails with an error, yields no session and no token, and issues no
\* network request.
C28_NoKeyNoSignature ==
    (SigningOperation /\ ~IsSome(credentials.secret)) =>
        /\ ~last.ret.ok
        /\ DOMAIN last.ret = {"ok", "err"}
        /\ last.calls = <<>>
        /\ Built => (st = "none" /\ sess.token = EmptyString)

\* Minting a session cookie has failed for want of a key, though both
\* services would have answered.
C28_Witness ==
    /\ last.op = "session_cookie"
    /\ ~IsSome(credentials.secret)
    /\ last.args.oauth2.ok
    /\ last.args.cookie.ok
    /\ ~last.ret.ok
    /\ last.calls = <<>>

\* C29: minting a session cookie signs the assertion locally, then
\* exchanges it at the OAuth2 endpoint, then requests the cookie with the
\* access token the exchange returned; a failing step ends the call with an
\* error and no later step is performed; a successful call has performed
\* exactly the two requests.
C29_SessionCookieSteps ==
    last.op = "session_cookie" =>
        LET signed == IsSome(credentials.secret)
            oauth2 == last.args.oauth2
            cookie == last.args.cookie
        IN /\ ~signed => (~last.ret.ok /\ last.calls = <<>>)
           /\ signed =>
                 /\ Len(last.calls) >= 1
                 /\ last.calls[1].endpoint = "oauth2"
                 /\ last.calls[1].assertion.kind = "jwt"
                 /\ last.calls[1].assertion.sig = Unwrap(credentials.secret)
                 /\ last.calls[1].assertion.payload.iss = Some(credentials.client_email)
           /\ (signed /\ ~oauth2.ok) => (~last.ret.ok /\ Len(last.calls) = 1)
           /\ (signed /\ oauth2.ok) =>
                 /\ Len(last.calls) = 2
                 /\ last.calls[2].endpoint = "createSessionCookie"
                 /\ last.calls[2].bearer = oauth2.val.access_token
                 /\ last.calls[2].id_token = last.args.id_token
           /\ (signed /\ oauth2.ok /\ ~cookie.ok) => ~last.ret.ok
           /\ last.ret.ok =>
                 /\ Len(last.calls) = 2
                 /\ last.ret.val = cookie.val.session_cookie_jwk

\* A session cookie has been minted with the second access token.
C29_Witness ==
    /\ last.op = "session_cookie"
    /\ variant = "blocking"
    /\ last.ret.ok
    /\ Len(last.calls) = 2
    /\ last.calls[2].bearer = Opaque("A2")

(***************************************************************************)
(* State machine of one async impersonated session shared by two tasks.    *)
(* access_token is `async fn access_token(&mut self)`: the future it       *)
(* returns holds the exclusive reference to the session from the call to   *)
(* the return, and is suspended only while the refresh request is in       *)
(* flight.                                                                 *)
(*   st    for every task "idle" or "suspended" (awaiting the response)    *)
(*   sess  the session's fields                                            *)
(*   last  holder: the task whose future holds the exclusive reference;    *)
(*         started: when each task's pending call began; issued: the       *)
(*         refresh requests each task has issued; observed: the calls of   *)
(*         each task that found the cached token expired; ret: what each   *)
(*         task's latest call returned                                     *)
(***************************************************************************)
Tasks == {"task1", "task2"}

\* Every task issues at most MaxRefreshes refresh requests in a run.
MaxRefreshes == 2

\* Mutant of the borrow rule: the session is handed out while a future
\* still holds it.
ExclusiveReferenceFree_Shared(holder) == TRUE

\* `&mut self`: a call can begin only when no live future holds the
\* exclusive reference to the session.
ExclusiveReferenceFree(holder) == holder = None

ConcInit ==
    /\ variant = "async"
    /\ credentials = Credentials(Some("k1"))
    /\ now = 0
    /\ st = [c \in Tasks |-> "idle"]
    /\ sess \in {[user_id |-> "alice", access_token_ |-> BaseToken,
                  refresh_token |-> r, project_id_ |-> "proj", api_key |-> "apikey"] :
                 r \in OptionOf(RefreshTokens)}
    /\ last = [holder |-> None,
               started |-> [c \in Tasks |-> 0],
               issued |-> [c \in Tasks |-> 0],
               observed |-> [c \in Tasks |-> 0],
               ret |-> [c \in Tasks |-> EmptyString]]

ConcTick ==
    /\ now < MaxMinutes * SecondsPerMinute
    /\ now' = now + SecondsPerMinute \div 2
    /\ UNCHANGED <<variant, credentials, st, sess, last>>

\* A task calls access_token and the future runs to its first suspension
\* point: it returns the cached token at once when that is not expired, and
\* otherwise sends the refresh request and awaits the response.
ConcCall(c) ==
    /\ st[c] = "idle"
    /\ ExclusiveReferenceFree(last.holder)
    /\ last.issued[c] < MaxRefreshes
    /\ LET expired == is_expired(sess.access_token_, 0, now)
       IN /\ expired.ok
          /\ IF expired.val
             THEN /\ st' = [st EXCEPT ![c] = "suspended"]
                  /\ last' = [last EXCEPT !.holder = Some(c),
                                          !.started[c] = now,
                                          !.issued[c] = @ + 1,
                                          !.observed[c] = @ + 1]
                  /\ UNCHANGED sess
             ELSE /\ last' = [last EXCEPT !.ret[c] =
                                 user_AsyncSession_access_token(sess, now, Err("unused")).ret]
                  /\ UNCHANGED <<st, sess>>
    /\ UNCHANGED <<variant, credentials, now>>

\* The response to a task's refresh request arrives and its future runs to
\* completion, releasing the session.
ConcResume(c) ==
    /\ st[c] = "suspended"
    /\ \E outcome \in RefreshOutcomes(now) :
          LET r == user_AsyncSession_access_token(sess, last.started[c], outcome)
          IN /\ sess' = r.self
             /\ last' = [last EXCEPT !.holder = None, !.ret[c] = r.ret]
    /\ st' = [st EXCEPT ![c] = "idle"]
    /\ UNCHANGED <<variant, credentials, now>>

ConcNext ==
    \/ ConcTick
    \/ \E c \in Tasks : ConcCall(c)
    \/ \E c \in Tasks : ConcResume(c)

SpecConc == ConcInit /\ [][ConcNext]_vars

(***************************************************************************)
(* Properties of concurrent calls on one async impersonated session.       *)
(***************************************************************************)
Suspended == {c \in Tasks : st[c] = "suspended"}

C31_OneRequestPerCall ==
    last.op = "access_token" =>
        /\ Len(last.calls) <= 1
        /\ CallsTo("refresh") = DOMAIN last.calls
        /\ CalledOnExpired => Len(last.calls) = 1
        /\ RefreshFailed =>
              /\ sess = last.pre
              /\ is_expired(sess.access_token_, 0, now) = Ok(TRUE)

\* A refresh has failed after its single request, and the session is left
\* with the expired token for the next call.
C31_Witness ==
    /\ RefreshFailed
    /\ Len(last.calls) = 1
    /\ ~last.calls[1].response.ok
    /\ st = "live"
    /\ is_expired(sess.access_token_, 0, now) = Ok(TRUE)

ByAccessTokenSession(s) ==
    \E tok \in InputTokens, m \in 0..(2 * MaxMinutes) :
        LET t == m * (SecondsPerMinute \div 2)
            r == IF variant = "blocking"
                 THEN user_BlockingSession_by_access_token(credentials, tok, t)
                 ELSE user_AsyncSession_by_access_token(credentials, tok, t)
        IN /\ t <= now
           /\ r.result.ok
           /\ r.result.val = s

\* C33: a session that by_access_token created never issues a refresh
\* request and never replaces its cached token; once that token is expired
\* access_token yields no usable token.
C33_NoRenewalWithoutRefreshToken ==
    (last.op = "access_token" /\ ByAccessTokenSession(last.pre)) =>
        /\ last.calls = <<>>
        /\ sess.access_token_ = last.pre.access_token_
        /\ CalledOnExpired => last.ret = EmptyString

\* C34: in the blocking variant access_token never aborts at a run-time
\* borrow check: no borrow of a cell is outstanding when the call swaps or
\* re-borrows that cell.
C34_BlockingNeverAbortsOnBorrow ==
    (last.op = "access_token" /\ variant = "blocking"
        /\ is_expired(last.pre.access_token_, 0, last.now).ok) => ~last.panic

\* The cached token of a live session is a decodable JWT, so the expiry
\* check of access_token does not fail on it.
CachedTokenDecodable ==
    st = "live" =>
        /\ sess.access_token_.kind = "jwt"
        /\ is_expired(sess.access_token_, 0, now).ok

\* C35: in every reachable state of an impersonated session the cached
\* token is a decodable JWT, the expiry check of access_token never fails
\* and access_token never aborts.
C35_DecodableTokenNoAbort ==
    /\ CachedTokenDecodable
    /\ last.op = "access_token" => (~last.panic /\ st = "live")

\* C37: access_token never returns a cached token whose expiry is earlier
\* than the current time.
C37_ReturnedCachedTokenNotPastExpiry ==
    (last.op = "access_token" /\ ~last.panic /\ last.ret = last.pre.access_token_) =>
        ~ExpiredAt(last.ret, last.now)

\* C36: in every reachable state of a service-account session the cached
\* token carries the issued-at of the session's claim set.
C36_CachedTokenMatchesClaimSet ==
    sess # NoSession => sess.access_token_.payload.iat = sess.jwt.payload.iat

(***************************************************************************)
(* jwt.rs: TokenValidationResult::get_scopes.                              *)
(***************************************************************************)
\* A string with no separator in it: the empty string, or its one piece.
Piece(s) == IF s = <<>> THEN "" ELSE s[1]

\* str::split(' '): the pieces between the separators, empty ones included;
\* the empty string splits into one empty piece.
RECURSIVE Split(_)
Split(s) ==
    IF \A i \in DOMAIN s : s[i] # " " THEN <<Piece(s)>>
    ELSE LET i == CHOOSE k \in DOMAIN s : s[k] = " " /\ \A j \in 1..(k - 1) : s[j] # " "
         IN <<Piece(SubSeq(s, 1, i - 1))>> \o Split(SubSeq(s, i + 1, Len(s)))

get_scopes(self) ==
    IF IsSome(self.claims.scope)
    THEN LET v == Split(Unwrap(self.claims.scope)) IN {v[i] : i \in DOMAIN v}
    ELSE {}

\* C38: for a token built from a scope sequence S and then verified,
\* get_scopes returns exactly the scopes of S: the empty set when S is empty
\* or no scope was supplied.
C38_GetScopesReturnsSuppliedScopes ==
    (Verified /\ st = "built" /\ last.ret.ok) =>
        \A S \in ScopeArgs :
            create_jwt(credentials, S, 0, None, None, JWT_AUDIENCE_FIRESTORE, 0).val.payload.scope
                = sess.jwt.payload.scope
            => get_scopes(last.ret.val) =
                  IF IsSome(S) THEN {Unwrap(S)[i] : i \in DOMAIN Unwrap(S)} ELSE {}

(***************************************************************************)
(* documents/query.rs: query and query_async, called with an impersonated  *)
(* session.  The database is external: a request fails or is answered.     *)
(***************************************************************************)
DatabaseOutcomes == {Err("database error"), Ok([documents |-> <<>>])}

\* query: the request is built with the token access_token() returns and
\* sent.
documents_query(auth, t, refresh, database) ==
    LET a == user_BlockingSession_access_token(auth, t, refresh)
        request == [endpoint |-> "runQuery", project_id |-> auth.project_id_,
                    bearer |-> a.ret, response |-> database]
    IN IF a.panic
       THEN [panic |-> TRUE, bearer |-> EmptyString, result |-> Err("panic"),
             self |-> a.self, calls |-> a.calls]
       ELSE [panic |-> FALSE, bearer |-> a.ret, result |-> database,
             self |-> a.self, calls |-> Append(a.calls, request)]

documents_query_async(auth, t, refresh, database) ==
    LET a == user_AsyncSession_access_token(auth, t, refresh)
        request == [endpoint |-> "runQuery", project_id |-> auth.project_id_,
                    bearer |-> a.ret, response |-> database]
    IN IF a.panic
       THEN [panic |-> TRUE, bearer |-> EmptyString, result |-> Err("panic"),
             self |-> a.self, calls |-> a.calls]
       ELSE [panic |-> FALSE, bearer |-> a.ret, result |-> database,
             self |-> a.self, calls |-> Append(a.calls, request)]

\* A query is run with the session.
Query ==
    /\ st = "live"
    /\ \E refresh \in RefreshOutcomes(now), database \in DatabaseOutcomes :
          LET r == IF variant = "blocking"
                   THEN documents_query(sess, now, refresh, database)
                   ELSE documents_query_async(sess, now, refresh, database)
          IN /\ st' = IF r.panic THEN "panicked" ELSE "live"
             /\ sess' = r.self
             /\ last' = [op |-> "query", now |-> now, args |-> NoArgs,
                         pre |-> sess, ret |-> r.bearer, ok |-> r.result.ok,
                         panic |-> r.panic, calls |-> r.calls, attempts |-> <<>>]
    /\ UNCHANGED <<variant, credentials, now>>

QueryNext == Tick \/ New \/ Query

SpecQuery == Init /\ [][QueryNext]_vars

\* C39: a query does not send the database request when access_token()
\* returned the empty string after a failed refresh.
C39_EmptyTokenNotSent ==
    (last.op = "query" /\ ~last.panic /\ last.ret = EmptyString) =>
        \A k \in DOMAIN last.calls : last.calls[k].endpoint # "runQuery"

====
